---- MODULE Spec2Model ----
(***************************************************************************)
(* Model of the upbit trading bot: the risk-managed position lifecycle,    *)
(* the strategy controller's order gate and trading cycle, the indicator   *)
(* frame, the signal fuser and its confidence, the portfolio rebalance,    *)
(* and the scheduler loop of main() with its stop flag and its notifier.   *)
(* Each part has its own specification (Spec, SpecTrade, SpecCycle,        *)
(* SpecFuse, SpecRebalance, SpecMain) over the same variables; SpecLedger  *)
(* runs the risk engine, the strategy's cycle and the rebalance on one     *)
(* ledger.                                                                 *)
(*                                                                         *)
(* Numbers.  The program computes with floats; the model uses exact        *)
(* integers, and binary64 arithmetic where the rounding of a float decides *)
(* what the program does (the amount of a buy and its 5000 KRW minimum):   *)
(*   - prices are whole KRW,                                               *)
(*   - the percentages stop_loss, take_profit, trailing_stop are whole     *)
(*     percents (0.03 -> 3), and a comparison  x / y <= -p  is written     *)
(*     x * 100 <= -p * y  (y > 0),                                         *)
(*   - trailing_stop_price is stored times 100 (107.8 -> 10780),           *)
(*   - a quantity is stored times QtyScale, so that halving is exact.      *)
(* entry_time (datetime.now()) and the free-text 'details' of a result are *)
(* not modelled; no decision reads them.                                   *)
(***************************************************************************)
EXTENDS Integers, Sequences, FiniteSets, TLC

(***************************************************************************)
(* Bounds of the model                                                     *)
(***************************************************************************)
\* how many times a quantity can be halved exactly before it is refreshed
MaxHalvings == 2

QtyScale == 2 ^ MaxHalvings

\* the currencies the balance query reports besides the cash currency
Coins == {"BTC", "ETH"}

\* the prices the price query can report
Prices == {100, 105, 110}

\* the balances (in whole coins) the balance query can report for a coin
CoinBalances == {0, 1}

(***************************************************************************)
(* Configuration (config_loader.validate_config defaults)                  *)
(***************************************************************************)
stop_loss == 3

take_profit == 5

trailing_stop == 2

\* 'sell_ratio': 0.5, written as 1 / sell_ratio_den
sell_ratio_den == 2

\* a falsy price (None or 0): "if not current_price"
NoPrice == 0

(***************************************************************************)
(* State                                                                   *)
(***************************************************************************)
VARIABLES
    use_trailing_stop,  \* config['risk_management']['use_trailing_stop']
    positions,          \* RiskManager.positions: ticker -> position
    pos_order,          \* insertion order of the keys of RiskManager.positions
    pc,                 \* "idle" between calls, "iterating" inside check_risk_limits
    it_index,           \* check_risk_limits: next entry of the dict iterator
    it_used,            \* check_risk_limits: dict size when the iterator was created
    actions,            \* check_risk_limits: the local map 'actions'
    risk_result,        \* main: risk_actions['actions'] of the last call
    notified,           \* main: tickers passed to notifier.notify_risk_action
    steps,              \* history: the positions evaluated in the current call
    refreshed,          \* history: the ledger's keys right after the refresh
    held,               \* history: tickers whose balance the refresh saw > 0
    created,            \* history: the instruments whose entry the last refresh created
    queried,            \* history: what the queries of the last refresh returned
    exited,             \* history: the entries a successful full exit removed
    trailed,            \* history: the last stop of the instruments held ever since
    trading,            \* config['trading']: trade_amount, max_invest_ratio
    orders,             \* CombinedStrategy.orders, in the order of their storing
    trade,              \* history: the last call of execute_trade
    markets,            \* config['trading']['markets']
    cyc_pc,             \* strategy cycle: "idle", "running", "waiting", "returned"
    cyc_index,          \* run_trading_cycle: position of the loop in markets
    results,            \* run_trading_cycle: the local map 'results'
    cycle_result,       \* main: cycle_result['trades'] of the last call
    visits,             \* history: the markets processed in the current cycle
    fuse_in,            \* the frame handed to the signal fuser
    fuse_out,           \* the fuser's result for fuse_in, once computed
    rebal_in,           \* the targets and collaborator responses of a rebalance
    rebal_out,          \* the result of rebalance_portfolio for rebal_in
    running,            \* main.running, the stop flag
    main_pc,            \* the position of main() from line 181 on
    phase,              \* the position of main.run_trading_cycle, or "idle"
    started,            \* how many cycles main() has started
    completed,          \* how many cycles have returned
    passed,             \* the phases the cycle in flight (or the last one) went through
    signalled,          \* where main() was when the first termination signal arrived
    notifier_enabled,   \* TelegramNotifier.enabled
    main_in,            \* the collaborator responses of a run of main()
    cycle_trades,       \* cycle_result['trades'] of the cycle in flight, summarised
    risk_actions,       \* risk_actions['actions'] of the cycle in flight, summarised
    notices             \* the notify calls of the cycle in flight and what they returned

risk_vars == <<use_trailing_stop, positions, pos_order, pc, it_index, it_used,
               actions, risk_result, notified, steps, refreshed, held, queried,
               created,
               exited, trailed>>

trade_vars == <<trading, orders, trade>>

cycle_vars == <<markets, cyc_pc, cyc_index, results, cycle_result, visits>>

fuse_vars == <<fuse_in, fuse_out>>

rebal_vars == <<rebal_in, rebal_out>>

notify_vars == <<notifier_enabled, main_in, cycle_trades, risk_actions, notices>>

main_vars ==
    <<running, main_pc, phase, started, completed, passed, signalled, notify_vars>>

ext_vars == <<cycle_vars, fuse_vars, rebal_vars, main_vars>>

vars == <<risk_vars, trade_vars, ext_vars>>

Ticker(currency) == "KRW-" \o currency

Tickers == {Ticker(c) : c \in Coins}

EmptyMap == [t \in {} |-> 0]

Max(a, b) == IF a >= b THEN a ELSE b

Min(a, b) == IF a <= b THEN a ELSE b

(***************************************************************************)
(* Binary64 arithmetic                                                     *)
(*                                                                         *)
(* The program's amounts are Python floats.  A natural number of any size  *)
(* is a sequence of limbs to the base 2^15, lowest limb first and without  *)
(* high zero limbs; a float >= 0 is a pair (m, e) with the value m * 2^e   *)
(* and m < 2^53 + 1.  Every operation computes the exact result and rounds *)
(* it to 53 bits, ties to even, as IEEE 754 does; the values of the model  *)
(* stay far from overflow and from the subnormal range.                    *)
(***************************************************************************)
\* the bits of a limb
BigLimbBits == 15

BigBase == 2 ^ BigLimbBits

\* the limbs of a machine integer n >= 0
RECURSIVE BigOfInt(_)
BigOfInt(n) == IF n = 0 THEN <<>> ELSE <<n % BigBase>> \o BigOfInt(n \div BigBase)

RECURSIVE BigTrim(_)
BigTrim(a) ==
    IF a = <<>> \/ a[Len(a)] # 0 THEN a ELSE BigTrim(SubSeq(a, 1, Len(a) - 1))

BigLimb(a, i) == IF i <= Len(a) THEN a[i] ELSE 0

RECURSIVE BigAddFrom(_, _, _, _)
BigAddFrom(a, b, i, carry) ==
    IF i > Len(a) /\ i > Len(b)
    THEN IF carry = 0 THEN <<>> ELSE <<carry>>
    ELSE LET s == BigLimb(a, i) + BigLimb(b, i) + carry
         IN  <<s % BigBase>> \o BigAddFrom(a, b, i + 1, s \div BigBase)

BigAdd(a, b) == BigAddFrom(a, b, 1, 0)

\* a - b for a >= b
RECURSIVE BigSubFrom(_, _, _, _)
BigSubFrom(a, b, i, borrow) ==
    IF i > Len(a) THEN <<>>
    ELSE LET s == a[i] - BigLimb(b, i) - borrow
         IN  IF s < 0
             THEN <<s + BigBase>> \o BigSubFrom(a, b, i + 1, 1)
             ELSE <<s>> \o BigSubFrom(a, b, i + 1, 0)

BigSub(a, b) == BigTrim(BigSubFrom(a, b, 1, 0))

\* -1, 0 or 1 as a < b, a = b or a > b, looking at limb i and below
RECURSIVE BigCmpFrom(_, _, _)
BigCmpFrom(a, b, i) ==
    IF i = 0 THEN 0
    ELSE IF a[i] < b[i] THEN -1
    ELSE IF a[i] > b[i] THEN 1
    ELSE BigCmpFrom(a, b, i - 1)

BigCmp(a, b) ==
    IF Len(a) < Len(b) THEN -1
    ELSE IF Len(a) > Len(b) THEN 1
    ELSE BigCmpFrom(a, b, Len(a))

\* a * k for one limb k
RECURSIVE BigMulLimbFrom(_, _, _, _)
BigMulLimbFrom(a, k, i, carry) ==
    IF i > Len(a)
    THEN IF carry = 0 THEN <<>> ELSE <<carry>>
    ELSE LET s == a[i] * k + carry
         IN  <<s % BigBase>> \o BigMulLimbFrom(a, k, i + 1, s \div BigBase)

BigMulLimb(a, k) == IF k = 0 THEN <<>> ELSE BigMulLimbFrom(a, k, 1, 0)

RECURSIVE BigMulFrom(_, _, _)
BigMulFrom(a, b, j) ==
    IF j > Len(b) THEN <<>>
    ELSE LET rest == BigMulFrom(a, b, j + 1)
         IN  BigAdd(BigMulLimb(a, b[j]), IF rest = <<>> THEN <<>> ELSE <<0>> \o rest)

BigMul(a, b) == BigTrim(BigMulFrom(a, b, 1))

\* a * 2^k
BigShl(a, k) ==
    IF a = <<>> THEN <<>>
    ELSE [i \in 1..(k \div BigLimbBits) |-> 0] \o BigMulLimb(a, 2 ^ (k % BigLimbBits))

\* n \div d and n % d for a machine integer 0 < d < 2^26, limb by limb from
\* limb i of n down with the remainder r so far, every limb in three digits
\* of five bits so that no intermediate value passes 2^31: the remainder and
\* after it the limbs of the quotient, lowest first
RECURSIVE BigDivLimbs(_, _, _, _)
BigDivLimbs(n, d, i, r) ==
    IF i = 0 THEN <<r>>
    ELSE LET s1 == r * 32 + (n[i] \div 1024)
             s2 == (s1 % d) * 32 + ((n[i] \div 32) % 32)
             s3 == (s2 % d) * 32 + (n[i] % 32)
         IN  BigDivLimbs(n, d, i - 1, s3 % d)
                 \o <<(s1 \div d) * 1024 + (s2 \div d) * 32 + (s3 \div d)>>

\* the quotient and the remainder in x, the result of BigDivLimbs
BigQuotRem(x) == [q |-> BigTrim(SubSeq(x, 2, Len(x))), r |-> x[1]]

BigDivMod(n, d) == BigQuotRem(BigDivLimbs(n, d, Len(n), 0))

\* a \div 2^k
BigShr(a, k) ==
    LET limbs == k \div BigLimbBits
        high == IF limbs >= Len(a) THEN <<>> ELSE SubSeq(a, limbs + 1, Len(a))
    IN  BigDivMod(high, 2 ^ (k % BigLimbBits)).q

RECURSIVE BitLength(_)
BitLength(n) == IF n = 0 THEN 0 ELSE 1 + BitLength(n \div 2)

BigBitLength(a) ==
    IF a = <<>> THEN 0 ELSE BigLimbBits * (Len(a) - 1) + BitLength(a[Len(a)])

BigIsOdd(a) == a # <<>> /\ a[1] % 2 = 1

Float(m, e) == [m |-> m, e |-> e]

\* q or q + 1 at exponent e, as the bits dropped from q compare with a half
\* (c is -1, 0 or 1): ties to even
FloatTie(q, e, c) ==
    IF c > 0 \/ (c = 0 /\ BigIsOdd(q))
    THEN Float(BigAdd(q, <<1>>), e)
    ELSE Float(q, e)

\* m * 2^e without the lowest k > 0 bits of m, where q = m \div 2^k
FloatDropBits(m, e, k, q) ==
    FloatTie(q, e + k, BigCmp(BigSub(m, BigShl(q, k)), BigShl(<<1>>, k - 1)))

\* m * 2^e with the lowest k bits of m rounded away
FloatRoundAt(m, e, k) ==
    IF k <= 0 THEN Float(m, e) ELSE FloatDropBits(m, e, k, BigShr(m, k))

\* the float nearest to m * 2^e, ties to even
FloatRound(m, e) == FloatRoundAt(m, e, BigBitLength(m) - 53)

\* float(n) for an integer 0 <= n < 2^31
FloatOfInt(n) == Float(BigOfInt(n), 0)

FloatMul(a, b) == FloatRound(BigMul(a.m, b.m), a.e + b.e)

\* the float of the quotient x.q at exponent e + 1, with one more bit that
\* says whether the division left a remainder x.r
FloatQuotient(x, e) ==
    FloatRound(BigAdd(BigMulLimb(x.q, 2), IF x.r = 0 THEN <<>> ELSE <<1>>), e)

\* a / float(d) with the mantissa of a shifted by s bits before the division
FloatDivShifted(a, d, s) ==
    FloatQuotient(BigDivMod(BigShl(a.m, s), d), a.e - s - 1)

\* a / float(d) for a machine integer 0 < d < 2^26: a quotient of at least 55
\* bits, and one more bit that says whether the division left a remainder
FloatDiv(a, d) ==
    IF a.m = <<>> THEN a
    ELSE FloatDivShifted(a, d, Max(0, 55 + BitLength(d) - BigBitLength(a.m)))

\* the mantissa of a at the exponent e <= a.e
FloatAligned(a, e) == BigShl(a.m, a.e - e)

\* a - b for a >= b
FloatSub(a, b) ==
    FloatRound(BigSub(FloatAligned(a, Min(a.e, b.e)),
                      FloatAligned(b, Min(a.e, b.e))), Min(a.e, b.e))

FloatCmp(a, b) ==
    BigCmp(FloatAligned(a, Min(a.e, b.e)), FloatAligned(b, Min(a.e, b.e)))

FloatLess(a, b) == FloatCmp(a, b) < 0

FloatMin(a, b) == IF FloatLess(b, a) THEN b ELSE a

\* the float of the decimal literal n / 10^k, e.g. 0.3 and 0.9: Python reads
\* a literal as the nearest float to its exact value
FloatOfRatio(n, d) == FloatDiv(FloatOfInt(n), d)

\* dict[key] = value
Put(map, key, value) ==
    [k \in (DOMAIN map) \cup {key} |-> IF k = key THEN value ELSE map[k]]

\* del dict[key]
Del(map, key) == [k \in (DOMAIN map) \ {key} |-> map[k]]

\* the key order of a dict after dict[key] = value
PutOrder(order, key) ==
    IF \E i \in 1..Len(order) : order[i] = key THEN order ELSE Append(order, key)

\* the key order of a dict after del dict[key]
DelOrder(order, key) == SelectSeq(order, LAMBDA k : k # key)

(***************************************************************************)
(* Collaborator responses                                                  *)
(***************************************************************************)
\* api.get_balance(): absent (None), or a list of {currency, balance}; the
\* cash entry comes first and the coins follow in either order
BalanceRecord(currency, balance) ==
    [currency |-> currency, balance |-> balance * QtyScale]

CoinLists ==
    {<<BalanceRecord("KRW", 1), BalanceRecord(c1, b1), BalanceRecord(c2, b2)>> :
        <<c1, c2, b1, b2>> \in
            {x \in Coins \X Coins \X CoinBalances \X CoinBalances : x[1] # x[2]}}

BalanceResponses ==
    {[absent |-> TRUE, list |-> <<>>], [absent |-> FALSE, list |-> <<>>]}
        \cup {[absent |-> FALSE, list |-> l] : l \in CoinLists}

\* api.get_current_price(ticker) for every ticker: a price, or NoPrice
PriceResponses == [Tickers -> Prices \cup {NoPrice}]

(***************************************************************************)
(* RiskManager._update_trailing_stop                                       *)
(***************************************************************************)
\* a variant for trailing_stop = 0: the stop is the price itself
StopPriceOf_zero_distance(current_price) == current_price * 100

StopPriceOf(current_price) == current_price * (100 - trailing_stop)

\* a variant that recomputes the stop from every price
_update_trailing_stop_recomputed(position, current_price) ==
    [position EXCEPT !.has_trailing_stop = TRUE,
                     !.trailing_stop_price = StopPriceOf(current_price)]

_update_trailing_stop(position, current_price) ==
    IF ~position.has_trailing_stop
    THEN [position EXCEPT !.has_trailing_stop = TRUE,
                          !.trailing_stop_price = StopPriceOf(current_price)]
    ELSE IF StopPriceOf(current_price) > position.trailing_stop_price
         THEN [position EXCEPT !.trailing_stop_price = StopPriceOf(current_price)]
         ELSE position

(***************************************************************************)
(* RiskManager.update_positions                                            *)
(***************************************************************************)
\* a variant whose first stop is the price itself
NewPosition_stop_at_price(currency, balance, current_price, uts) ==
    [currency             |-> currency,
     quantity             |-> balance,
     entry_price          |-> current_price,
     current_price        |-> current_price,
     highest_price        |-> current_price,
     lowest_price         |-> current_price,
     has_trailing_stop    |-> uts,
     trailing_stop_price  |-> IF uts THEN current_price * 100 ELSE 0]

\* lines 99-113: a new position
NewPosition(currency, balance, current_price, uts) ==
    [currency             |-> currency,
     quantity             |-> balance,
     entry_price          |-> current_price,
     current_price        |-> current_price,
     highest_price        |-> current_price,
     lowest_price         |-> current_price,
     has_trailing_stop    |-> uts,
     trailing_stop_price  |-> IF uts THEN StopPriceOf(current_price) ELSE 0]

\* a variant whose highest_price follows the current price down
UpdatedPosition_follows_price(old, balance, current_price, uts) ==
    LET p1 == [old EXCEPT !.quantity = balance, !.current_price = current_price,
                          !.highest_price = current_price]
        p3 == IF current_price < p1.lowest_price
              THEN [p1 EXCEPT !.lowest_price = current_price] ELSE p1
    IN  IF uts THEN _update_trailing_stop(p3, current_price) ELSE p3

\* lines 77-97: an existing position
UpdatedPosition(old, balance, current_price, uts) ==
    LET p1 == [old EXCEPT !.quantity = balance, !.current_price = current_price]
        p2 == IF current_price > p1.highest_price
              THEN [p1 EXCEPT !.highest_price = current_price] ELSE p1
        p3 == IF current_price < p2.lowest_price
              THEN [p2 EXCEPT !.lowest_price = current_price] ELSE p2
    IN  IF uts THEN _update_trailing_stop(p3, current_price) ELSE p3

\* lines 55-113: the loop over the balances, from entry i on; acc is
\* new_positions with its key order
RECURSIVE UpdateLoop(_, _, _, _, _, _)
UpdateLoop(old_positions, list, price, uts, i, acc) ==
    IF i > Len(list) THEN acc
    ELSE LET currency == list[i].currency
             balance == list[i].balance
             ticker == Ticker(currency)
         IN  IF currency = "KRW" \/ balance <= 0
             THEN UpdateLoop(old_positions, list, price, uts, i + 1, acc)
             ELSE IF price[ticker] = NoPrice
             THEN UpdateLoop(old_positions, list, price, uts, i + 1, acc)
             ELSE LET position ==
                          IF ticker \in DOMAIN old_positions
                          THEN UpdatedPosition(old_positions[ticker], balance,
                                               price[ticker], uts)
                          ELSE NewPosition(currency, balance, price[ticker], uts)
                  IN  UpdateLoop(old_positions, list, price, uts, i + 1,
                                 [positions |-> Put(acc.positions, ticker, position),
                                  order |-> PutOrder(acc.order, ticker)])

\* a variant that empties the ledger when the balance query fails
update_positions_clears_on_failure(old_positions, old_order, balances, price, uts) ==
    IF balances.absent \/ Len(balances.list) = 0
    THEN [positions |-> EmptyMap, order |-> <<>>]
    ELSE UpdateLoop(old_positions, balances.list, price, uts, 1,
                    [positions |-> EmptyMap, order |-> <<>>])

\* a variant that keeps only the instruments of trading.markets
update_positions_markets_only(old_positions, old_order, balances, price, uts) ==
    IF balances.absent \/ Len(balances.list) = 0
    THEN [positions |-> old_positions, order |-> old_order]
    ELSE LET u == UpdateLoop(old_positions, balances.list, price, uts, 1,
                             [positions |-> EmptyMap, order |-> <<>>])
             configured == {markets[i] : i \in DOMAIN markets}
         IN  [positions |-> [t \in DOMAIN u.positions \cap configured |->
                                u.positions[t]],
              order |-> SelectSeq(u.order, LAMBDA t : t \in configured)]

\* the ledger and its key order after update_positions()
update_positions(old_positions, old_order, balances, price, uts) ==
    IF balances.absent \/ Len(balances.list) = 0
    THEN [positions |-> old_positions, order |-> old_order]
    ELSE UpdateLoop(old_positions, balances.list, price, uts, 1,
                    [positions |-> EmptyMap, order |-> <<>>])

(***************************************************************************)
(* RiskManager._check_position_risk                                        *)
(***************************************************************************)
\* profit_pct <= -stop_loss
StopLossHit(position) ==
    (position.current_price - position.entry_price) * 100
        <= (0 - stop_loss) * position.entry_price

\* use_trailing_stop and a stop is set and current_price <= trailing_stop_price
TrailingStopHit(position, uts) ==
    /\ uts
    /\ position.has_trailing_stop
    /\ position.current_price * 100 <= position.trailing_stop_price

\* profit_pct >= take_profit
TakeProfitHit(position) ==
    (position.current_price - position.entry_price) * 100
        >= take_profit * position.entry_price

RiskAction(action, reason) == [action |-> action, reason |-> reason]

\* a variant that tests the trailing stop before the stop-loss
_check_position_risk_trailing_first(position, uts) ==
    IF TrailingStopHit(position, uts) THEN RiskAction("sell", "trailing_stop")
    ELSE IF StopLossHit(position) THEN RiskAction("sell", "stop_loss")
    ELSE IF TakeProfitHit(position) THEN RiskAction("partial_sell", "take_profit")
    ELSE RiskAction("hold", "within_limits")

\* a variant that tests the take-profit before the trailing stop
_check_position_risk_profit_first(position, uts) ==
    IF StopLossHit(position) THEN RiskAction("sell", "stop_loss")
    ELSE IF TakeProfitHit(position) THEN RiskAction("partial_sell", "take_profit")
    ELSE IF TrailingStopHit(position, uts) THEN RiskAction("sell", "trailing_stop")
    ELSE RiskAction("hold", "within_limits")

_check_position_risk(position, uts) ==
    IF StopLossHit(position) THEN RiskAction("sell", "stop_loss")
    ELSE IF TrailingStopHit(position, uts) THEN RiskAction("sell", "trailing_stop")
    ELSE IF TakeProfitHit(position) THEN RiskAction("partial_sell", "take_profit")
    ELSE RiskAction("hold", "within_limits")

(***************************************************************************)
(* RiskManager._execute_risk_action                                        *)
(***************************************************************************)
\* a result as it is stored in the map 'actions'; a 'hold' decision is stored
\* as it is and has no 'success' key
Result(has_success, success, action, reason) ==
    [has_success |-> has_success, success |-> success,
     action |-> action, reason |-> reason]

\* the volume of the market sell the action submits
\* a variant whose partial sell is the whole quantity
OrderVolume_whole(position, risk_action) == position.quantity

OrderVolume(position, risk_action) ==
    IF risk_action.action = "sell" THEN position.quantity
    ELSE position.quantity \div sell_ratio_den

\* a variant that removes the entry of a full exit whatever the order returned
_execute_risk_action_always_removes(ledger, order, ticker, position, risk_action, order_ok) ==
    IF risk_action.action = "sell"
    THEN [positions |-> Del(ledger, ticker),
          order |-> DelOrder(order, ticker),
          result |-> IF order_ok
                     THEN Result(TRUE, TRUE, "sell", risk_action.reason)
                     ELSE Result(TRUE, FALSE, "hold", risk_action.reason)]
    ELSE IF order_ok
    THEN [positions |->
              [ledger EXCEPT ![ticker].quantity =
                  position.quantity - OrderVolume(position, risk_action)],
          order |-> order,
          result |-> Result(TRUE, TRUE, "partial_sell", risk_action.reason)]
    ELSE [positions |-> ledger, order |-> order,
          result |-> Result(TRUE, FALSE, "hold", risk_action.reason)]

\* a variant that keeps the entry of a successful full exit in the ledger
_execute_risk_action_never_removes(ledger, order, ticker, position, risk_action, order_ok) ==
    IF order_ok /\ risk_action.action = "partial_sell"
    THEN [positions |->
              [ledger EXCEPT ![ticker].quantity =
                  position.quantity - OrderVolume(position, risk_action)],
          order |-> order,
          result |-> Result(TRUE, TRUE, "partial_sell", risk_action.reason)]
    ELSE [positions |-> ledger, order |-> order,
          result |-> IF order_ok
                     THEN Result(TRUE, TRUE, "sell", risk_action.reason)
                     ELSE Result(TRUE, FALSE, "hold", risk_action.reason)]

\* a variant whose successful partial exit leaves the quantity as it was
_execute_risk_action_keeps_quantity(ledger, order, ticker, position, risk_action, order_ok) ==
    IF risk_action.action = "sell" /\ order_ok
    THEN [positions |-> Del(ledger, ticker),
          order |-> DelOrder(order, ticker),
          result |-> Result(TRUE, TRUE, "sell", risk_action.reason)]
    ELSE [positions |-> ledger, order |-> order,
          result |-> IF order_ok
                     THEN Result(TRUE, TRUE, "partial_sell", risk_action.reason)
                     ELSE Result(TRUE, FALSE, "hold", risk_action.reason)]

\* the ledger, its key order and the returned result; order_ok tells whether
\* api.sell_market_order returned an order
_execute_risk_action(ledger, order, ticker, position, risk_action, order_ok) ==
    IF risk_action.action = "sell"
    THEN IF order_ok
         THEN [positions |-> Del(ledger, ticker),
               order |-> DelOrder(order, ticker),
               result |-> Result(TRUE, TRUE, "sell", risk_action.reason)]
         ELSE [positions |-> ledger, order |-> order,
               result |-> Result(TRUE, FALSE, "hold", risk_action.reason)]
    ELSE IF risk_action.action = "partial_sell"
    THEN IF order_ok
         THEN [positions |->
                   [ledger EXCEPT ![ticker].quantity =
                       position.quantity - OrderVolume(position, risk_action)],
               order |-> order,
               result |-> Result(TRUE, TRUE, "partial_sell", risk_action.reason)]
         ELSE [positions |-> ledger, order |-> order,
               result |-> Result(TRUE, FALSE, "hold", risk_action.reason)]
    ELSE [positions |-> ledger, order |-> order,
          result |-> Result(TRUE, TRUE, "hold", risk_action.reason)]

(***************************************************************************)
(* RiskManager.check_risk_limits, called by main.run_trading_cycle         *)
(***************************************************************************)
\* the tickers whose balance entry the refresh saw with a balance > 0
HeldIn(balances) ==
    {Ticker(balances.list[i].currency) :
        i \in {j \in 1..Len(balances.list) :
                 /\ balances.list[j].currency # "KRW"
                 /\ balances.list[j].balance > 0}}

\* every quantity of the ledger can still be halved exactly
Halvable(ledger) ==
    \A t \in DOMAIN ledger : ledger[t].quantity % sell_ratio_den = 0

\* what update_positions got from its collaborators: whether the balance
\* query gave a list with entries (line 45), and the instruments with a
\* balance > 0 whose price query gave a price (lines 62-74)
Queried(balances, price) ==
    [succeeded |-> ~balances.absent /\ Len(balances.list) > 0,
     priced |-> {t \in HeldIn(balances) : price[t] # NoPrice}]

\* the last trailing stop the ledger recorded for every instrument whose
\* balance has been > 0 in each refresh since: a refresh that sees no balance
\* > 0 for an instrument ends its record, a refresh that leaves an entry with
\* a stop in the ledger records that stop, and an instrument that is held but
\* has no entry keeps the stop recorded last
LastStops(old, ledger, balances) ==
    LET kept == IF balances.absent \/ Len(balances.list) = 0
                THEN DOMAIN old
                ELSE (DOMAIN old) \cap HeldIn(balances)
        set == {t \in DOMAIN ledger : ledger[t].has_trailing_stop}
    IN  [t \in kept \cup set |->
            IF t \in set THEN ledger[t].trailing_stop_price ELSE old[t]]

\* lines 153-159: update_positions(), then the iterator over self.positions;
\* the driver's risk_actions of this cycle is not assigned yet (main.py line 92)
RiskBegin(balances, price) ==
    /\ pc = "idle"
    /\ (balances.absent \/ Len(balances.list) = 0) => Halvable(positions)
    /\ \A t \in Tickers : t \notin HeldIn(balances) => price[t] = NoPrice
    /\ LET u == update_positions(positions, pos_order, balances, price,
                                 use_trailing_stop)
       IN  /\ positions' = u.positions
           /\ pos_order' = u.order
           /\ it_used' = Len(u.order)
           /\ refreshed' = DOMAIN u.positions
           /\ trailed' = LastStops(trailed, u.positions, balances)
    /\ held' = HeldIn(balances)
    /\ queried' = Queried(balances, price)
    /\ created' = DOMAIN positions' \ DOMAIN positions
    /\ it_index' = 1
    /\ actions' = EmptyMap
    /\ steps' = <<>>
    /\ risk_result' = EmptyMap
    /\ notified' = {}
    /\ pc' = "iterating"
    /\ UNCHANGED <<use_trailing_stop, exited, trade_vars, ext_vars>>

\* the dict iterator yields its next entry: the dict has the size it had when
\* the iterator was created, and an entry is left
IteratorYields ==
    /\ pc = "iterating"
    /\ Len(pos_order) = it_used
    /\ it_index <= Len(pos_order)

StepRecord(ticker, position, risk_action, ordered, volume, order_ok, result) ==
    [ticker |-> ticker, position |-> position, risk_action |-> risk_action,
     ordered |-> ordered, volume |-> volume, order_ok |-> order_ok,
     result |-> result]

\* lines 159-168, the decision is 'hold'
RiskHold ==
    /\ IteratorYields
    /\ LET ticker == pos_order[it_index]
           position == positions[ticker]
           risk_action == _check_position_risk(position, use_trailing_stop)
           result == Result(FALSE, FALSE, risk_action.action, risk_action.reason)
       IN  /\ risk_action.action = "hold"
           /\ actions' = Put(actions, ticker, result)
           /\ steps' = Append(steps, StepRecord(ticker, position, risk_action,
                                                FALSE, 0, FALSE, result))
    /\ it_index' = it_index + 1
    /\ UNCHANGED <<use_trailing_stop, positions, pos_order, pc, it_used,
                   risk_result, notified, refreshed, held, queried, created,
                   exited, trailed,
                   trade_vars, ext_vars>>

\* a history map without the given instruments
Forget(map, keys) == [k \in (DOMAIN map) \ keys |-> map[k]]

\* lines 159-166, the decision is an exit
RiskExecute(order_ok) ==
    /\ IteratorYields
    /\ LET ticker == pos_order[it_index]
           position == positions[ticker]
           risk_action == _check_position_risk(position, use_trailing_stop)
           r == _execute_risk_action(positions, pos_order, ticker, position,
                                     risk_action, order_ok)
       IN  /\ risk_action.action # "hold"
           /\ positions' = r.positions
           /\ pos_order' = r.order
           /\ actions' = Put(actions, ticker, r.result)
           /\ steps' = Append(steps,
                  StepRecord(ticker, position, risk_action, TRUE,
                             OrderVolume(position, risk_action), order_ok, r.result))
           /\ exited' = IF r.result.action = "sell" /\ r.result.success
                        THEN Put(exited, ticker, position) ELSE exited
           /\ trailed' = Forget(trailed, {ticker} \ DOMAIN r.positions)
    /\ it_index' = it_index + 1
    /\ UNCHANGED <<use_trailing_stop, pc, it_used, risk_result, notified,
                   refreshed, held, queried, created,
                   trade_vars, ext_vars>>

\* main.py lines 95-100: the driver notifies every returned action that is
\* not 'hold'
NotifiedOf(result_map) ==
    {t \in DOMAIN result_map : result_map[t].action # "hold"}

\* lines 170-173: the loop ends and the map is returned
ReturnActions ==
    /\ pc = "iterating"
    /\ Len(pos_order) = it_used
    /\ it_index > Len(pos_order)
    /\ risk_result' = actions
    /\ notified' = NotifiedOf(actions)
    /\ exited' = Forget(exited, DOMAIN positions)
    /\ pc' = "idle"
    /\ UNCHANGED <<use_trailing_stop, positions, pos_order, it_index, it_used,
                   actions, steps, refreshed, held, queried,
                   created, trailed, trade_vars, cycle_vars, fuse_vars,
                   rebal_vars>>

\* lines 175-180: the dict changed size during the iteration, the iterator
\* raises RuntimeError and the handler returns an empty map
ReturnNoActions ==
    /\ pc = "iterating"
    /\ Len(pos_order) # it_used
    /\ risk_result' = EmptyMap
    /\ notified' = NotifiedOf(EmptyMap)
    /\ exited' = Forget(exited, DOMAIN positions)
    /\ pc' = "idle"
    /\ UNCHANGED <<use_trailing_stop, positions, pos_order, it_index, it_used,
                   actions, steps, refreshed, held, queried,
                   created, trailed, trade_vars, cycle_vars, fuse_vars,
                   rebal_vars>>

\* the returns of check_risk_limits where the driver's cycle is not followed
RiskReturn == ReturnActions /\ UNCHANGED main_vars

RiskRaise == ReturnNoActions /\ UNCHANGED main_vars

\* RiskManager.__init__
InitRisk(uts) ==
    /\ use_trailing_stop \in uts
    /\ positions = EmptyMap
    /\ pos_order = <<>>
    /\ pc = "idle"
    /\ it_index = 1
    /\ it_used = 0
    /\ actions = EmptyMap
    /\ risk_result = EmptyMap
    /\ notified = {}
    /\ steps = <<>>
    /\ refreshed = {}
    /\ held = {}
    /\ queried = [succeeded |-> FALSE, priced |-> {}]
    /\ created = {}
    /\ exited = EmptyMap
    /\ trailed = EmptyMap

(***************************************************************************)
(* CombinedStrategy.execute_trade                                          *)
(*                                                                         *)
(* confidence is a whole percent (0.6 -> 60), max_invest_ratio too; the    *)
(* amount of an order is the binary64 value the program submits.           *)
(***************************************************************************)
\* the number of orders the order table holds at most in the model
MaxOrders == 1

\* an absent collaborator response (None) and a present one
Absent == [absent |-> TRUE, value |-> 0]

Present(value) == [absent |-> FALSE, value |-> value]

\* the market a single call of execute_trade is checked on
TradeTickers == {Ticker("BTC")}

Signals == {-1, 0, 1}

Confidences == {0, 59, 60}

TradePrices == {Absent, Present(100)}

CashBalances ==
    {Absent, Present(0), Present(4999), Present(5557), Present(6000),
     Present(19000), Present(40000), Present(80000)}

HeldBalances == {Absent, Present(0), Present(10), Present(100), Present(270)}

\* the balances of a pass of the strategy's cycle
CycleCash == {Absent, Present(0), Present(20000)}

CycleHeld == {Absent, Present(0), Present(10)}

DefaultTrading == {[trade_amount |-> 10000, max_invest_ratio |-> 30]}

TradingConfigs ==
    DefaultTrading \cup {[trade_amount |-> 10000, max_invest_ratio |-> 100]}

\* line 207: no signal, or confidence < 0.6
GateHolds_conjunction(signal, confidence) == signal = 0 /\ confidence < 60

GateHolds(signal, confidence) == signal = 0 \/ confidence < 60

TradeResult(success, action, calls, order, stored) ==
    [success |-> success, action |-> action, calls |-> calls, order |-> order,
     stored |-> stored]

\* no order; the amount of an order is a float
NoOrder ==
    [type |-> "none", ticker |-> "", price |-> 0, amount |-> FloatOfInt(0)]

Order(type, ticker, price, amount) ==
    [type |-> type, ticker |-> ticker, price |-> price, amount |-> amount]

Min3(a, b, c) == Min(Min(a, b), c)

\* line 255 (and line 517 of risk_manager.py): the smallest order the
\* exchange takes, in KRW
MinimumOrder == 5000

\* deficit_value < 5000 as rebalance_portfolio decides it (line 517).  amount
\* is the exact value of the expression times 100 and float the binary64
\* value the program computes for it.  The two differ by less than 10^-6 KRW
\* and the exact value is a whole number of hundredths, so the float is below
\* the minimum whenever the exact value is, and not below it whenever the
\* exact value is above it; where the exact value is the minimum itself, the
\* rounding of the float decides.
BelowMinimum(amount, float) ==
    \/ amount < MinimumOrder * 100
    \/ /\ amount = MinimumOrder * 100
       /\ FloatLess(float, FloatOfInt(MinimumOrder))

\* line 251: krw_balance * 0.9
CashRoom(krw) == FloatMul(FloatOfInt(krw), FloatOfRatio(9, 10))

\* lines 239 and 252: (max_invest_ratio - coin_ratio) * total_asset with
\* coin_ratio = coin_value / total_asset, for coin_ratio < max_invest_ratio
RatioRoom(max_invest_ratio, coin_value, total_asset) ==
    FloatMul(FloatSub(FloatOfRatio(max_invest_ratio, 100),
                      FloatDiv(FloatOfInt(coin_value), total_asset)),
             FloatOfInt(total_asset))

\* line 243: coin_ratio >= max_invest_ratio, on the floats
RatioReached(max_invest_ratio, coin_value, total_asset) ==
    FloatCmp(FloatDiv(FloatOfInt(coin_value), total_asset),
             FloatOfRatio(max_invest_ratio, 100)) >= 0

\* line 243 holds: nothing is sized
NotSized == [reached |-> TRUE, trade_amount |-> FloatOfInt(0), below |-> TRUE]

\* lines 249-255: trade_amount and the test trade_amount < 5000
Sized(trade_amount) ==
    [reached |-> FALSE, trade_amount |-> trade_amount,
     below |-> FloatLess(trade_amount, FloatOfInt(MinimumOrder))]

\* a variant that leaves 0.9 * cash out of the minimum
BuySizing_without_cash_cap(cfg, krw, coin_value) ==
    LET total_asset == krw + coin_value
    IN  IF RatioReached(cfg.max_invest_ratio, coin_value, total_asset)
        THEN NotSized
        ELSE Sized(FloatMin(FloatOfInt(cfg.trade_amount),
                           RatioRoom(cfg.max_invest_ratio, coin_value,
                                     total_asset)))

\* a variant that does not look at the room left under max_invest_ratio
BuySizing_without_ratio_cap(cfg, krw, coin_value) ==
    LET total_asset == krw + coin_value
    IN  IF RatioReached(cfg.max_invest_ratio, coin_value, total_asset)
        THEN NotSized
        ELSE Sized(FloatMin(FloatOfInt(cfg.trade_amount), CashRoom(krw)))

\* lines 239-255 for total_asset > 0: whether coin_ratio >= max_invest_ratio,
\* and if not trade_amount, the binary64 value of min(trade_amount,
\* krw_balance * 0.9, (max_invest_ratio - coin_ratio) * total_asset), with
\* the test against the minimum
BuySizing(cfg, krw, coin_value) ==
    LET total_asset == krw + coin_value
    IN  IF RatioReached(cfg.max_invest_ratio, coin_value, total_asset)
        THEN NotSized
        ELSE Sized(FloatMin(FloatOfInt(cfg.trade_amount),
                           FloatMin(CashRoom(krw),
                                    RatioRoom(cfg.max_invest_ratio, coin_value,
                                              total_asset))))

\* the buys that the model sizes, with total_asset > 0
SizedBuys ==
    {b \in [cfg : TradingConfigs,
            krw : {k.value : k \in (CashBalances \cup CycleCash) \ {Absent}},
            coin_value : {h.value * p.value : h \in HeldBalances \ {Absent},
                                             p \in TradePrices \ {Absent}}] :
        b.krw + b.coin_value > 0}

\* BuySizing on each of them, evaluated once
BuySizes == [b \in SizedBuys |-> BuySizing(b.cfg, b.krw, b.coin_value)] @@ <<>>

\* lines 236-289: the buy branch; the amount of the order is trade_amount
BuyBranch(ticker, price, krw, coin, order_ok, cfg, calls) ==
    LET coin_value == coin * price
        total_asset == krw + coin_value
        Buy(sizing) ==
            LET order == Order("buy", ticker, price, sizing.trade_amount)
            IN  IF sizing.reached
                THEN TradeResult(TRUE, "hold", calls, NoOrder, FALSE)
                ELSE IF sizing.below
                THEN TradeResult(TRUE, "hold", calls, NoOrder, FALSE)
                ELSE IF order_ok
                THEN TradeResult(TRUE, "buy",
                                 Append(calls, "buy_market_order"), order, TRUE)
                ELSE TradeResult(FALSE, "hold",
                                 Append(calls, "buy_market_order"), order, FALSE)
    IN  IF total_asset = 0
        THEN \* ZeroDivisionError, lines 341-347
             TradeResult(FALSE, "hold", calls, NoOrder, FALSE)
        ELSE Buy(BuySizes[[cfg |-> cfg, krw |-> krw,
                           coin_value |-> coin_value]])

\* a variant that reports and stores a sell whatever the order call returned
SellBranch_ignores_rejection(ticker, price, coin, order_ok, calls) ==
    IF coin <= 0
    THEN TradeResult(TRUE, "hold", calls, NoOrder, FALSE)
    ELSE TradeResult(TRUE, "sell", Append(calls, "sell_market_order"),
                     Order("sell", ticker, price, FloatOfInt(coin)), TRUE)

\* a variant that sells half of the held quantity
SellBranch_half(ticker, price, coin, order_ok, calls) ==
    IF coin <= 0
    THEN TradeResult(TRUE, "hold", calls, NoOrder, FALSE)
    ELSE LET order == Order("sell", ticker, price, FloatOfInt(coin \div 2))
         IN  IF order_ok
             THEN TradeResult(TRUE, "sell",
                              Append(calls, "sell_market_order"), order, TRUE)
             ELSE TradeResult(FALSE, "hold",
                              Append(calls, "sell_market_order"), order, FALSE)

\* lines 292-331: the sell branch; the volume is the float of the balance
SellBranch(ticker, price, coin, order_ok, calls) ==
    IF coin <= 0
    THEN TradeResult(TRUE, "hold", calls, NoOrder, FALSE)
    ELSE LET order == Order("sell", ticker, price, FloatOfInt(coin))
         IN  IF order_ok
             THEN TradeResult(TRUE, "sell",
                              Append(calls, "sell_market_order"), order, TRUE)
             ELSE TradeResult(FALSE, "hold",
                              Append(calls, "sell_market_order"), order, FALSE)

\* a variant that takes an absent balance for an empty one
execute_trade_defaults_balances(ticker, signal, confidence, price, krw, coin, order_ok, cfg) ==
    IF GateHolds(signal, confidence)
    THEN TradeResult(TRUE, "hold", <<>>, NoOrder, FALSE)
    ELSE IF price.absent
    THEN TradeResult(FALSE, "hold", <<"get_current_price">>, NoOrder, FALSE)
    ELSE LET calls == <<"get_current_price", "get_balance", "get_balance">>
         IN  IF signal > 0
             THEN BuyBranch(ticker, price.value, krw.value, coin.value, order_ok,
                            cfg, calls)
             ELSE SellBranch(ticker, price.value, coin.value, order_ok, calls)

\* the result of execute_trade(ticker, signal_info) with the collaborator
\* calls it made, the order it submitted and whether it stored the order
execute_trade(ticker, signal, confidence, price, krw, coin, order_ok, cfg) ==
    IF GateHolds(signal, confidence)
    THEN TradeResult(TRUE, "hold", <<>>, NoOrder, FALSE)
    ELSE IF price.absent
    THEN TradeResult(FALSE, "hold", <<"get_current_price">>, NoOrder, FALSE)
    ELSE LET calls == <<"get_current_price", "get_balance", "get_balance">>
         IN  IF krw.absent \/ coin.absent
             THEN TradeResult(FALSE, "hold", calls, NoOrder, FALSE)
             ELSE IF signal > 0
             THEN BuyBranch(ticker, price.value, krw.value, coin.value, order_ok,
                            cfg, calls)
             ELSE IF signal < 0
             THEN SellBranch(ticker, price.value, coin.value, order_ok, calls)
             ELSE TradeResult(TRUE, "hold", calls, NoOrder, FALSE)

\* CombinedStrategy.__init__
InitTrade(configs) ==
    /\ trading \in configs
    /\ orders = <<>>
    /\ trade = [called |-> FALSE, ticker |-> "", signal |-> 0, confidence |-> 0,
                price |-> Absent, krw |-> Absent, coin |-> Absent,
                result |-> TradeResult(TRUE, "hold", <<>>, NoOrder, FALSE)]

\* one call of execute_trade
ExecuteTrade(ticker, signal, confidence, price, krw, coin, order_ok) ==
    /\ \E r \in {execute_trade(ticker, signal, confidence, price, krw, coin,
                                order_ok, trading)} :
           /\ r.order = NoOrder => order_ok
           /\ r.stored => Len(orders) < MaxOrders
           /\ trade' = [called |-> TRUE, ticker |-> ticker, signal |-> signal,
                        confidence |-> confidence, price |-> price,
                        krw |-> krw, coin |-> coin, result |-> r]
           /\ orders' = IF r.stored THEN Append(orders, r.order) ELSE orders
    /\ UNCHANGED <<trading, risk_vars, ext_vars>>

\* a collaborator that the call does not reach gives no response
NextTrade ==
    \E ticker \in TradeTickers, signal \in Signals, confidence \in Confidences :
        IF GateHolds(signal, confidence)
        THEN ExecuteTrade(ticker, signal, confidence, Absent, Absent, Absent, TRUE)
        ELSE \E price \in TradePrices :
                 IF price.absent
                 THEN ExecuteTrade(ticker, signal, confidence, price, Absent,
                                   Absent, TRUE)
                 ELSE \E krw \in CashBalances, coin \in HeldBalances,
                         order_ok \in BOOLEAN :
                          ExecuteTrade(ticker, signal, confidence, price, krw,
                                       coin, order_ok)

(***************************************************************************)
(* CombinedStrategy.run_trading_cycle                                      *)
(*                                                                         *)
(* The candles of a market are modelled by what get_signal reads from      *)
(* them: whether the query gave nothing, an empty frame, or bars whose     *)
(* last row has a fused signal and a confidence.  last_signals and the     *)
(* timestamps are not modelled; no decision reads them.                    *)
(***************************************************************************)
\* config['trading']['markets']: a list of markets, one of them with a market
\* listed twice
MarketLists ==
    {<<Ticker("BTC")>>, <<Ticker("ETH"), Ticker("BTC")>>,
     <<Ticker("BTC"), Ticker("BTC")>>}

\* api.get_ohlcv(): None, an empty frame, or bars; raises names the function
\* in whose try block the work on the bars raises, if any
OhlcvAbsent ==
    [absent |-> TRUE, empty |-> FALSE, raises |-> "", signal |-> 0,
     confidence |-> 0]

OhlcvEmpty ==
    [absent |-> FALSE, empty |-> TRUE, raises |-> "", signal |-> 0,
     confidence |-> 0]

Bars(signal, confidence) ==
    [absent |-> FALSE, empty |-> FALSE, raises |-> "", signal |-> signal,
     confidence |-> confidence]

\* bars on which add_indicators or get_combined_signal raises (lines 59-62),
\* and bars on which _calculate_confidence raises (line 98)
BarsRaising(where, signal, confidence) ==
    [absent |-> FALSE, empty |-> FALSE, raises |-> where, signal |-> signal,
     confidence |-> confidence]

CycleData ==
    {OhlcvAbsent, OhlcvEmpty, Bars(0, 60), Bars(1, 59), Bars(1, 60), Bars(-1, 60),
     BarsRaising("update_market_data", 1, 60), BarsRaising("get_signal", -1, 60)}

\* update_market_data: None when the query gave nothing or an empty frame,
\* and from the except clause of lines 66-68
update_market_data(data) ==
    IF data.absent \/ data.empty \/ data.raises = "update_market_data"
    THEN OhlcvAbsent ELSE data

SignalInfo(signal, confidence) == [signal |-> signal, confidence |-> confidence]

\* get_signal: signal 0 with confidence 0.0 without data, and from the except
\* clause of lines 114-116
get_signal(data) ==
    LET df == update_market_data(data)
    IN  IF df.absent \/ df.empty \/ df.raises = "get_signal"
        THEN SignalInfo(0, 0)
        ELSE SignalInfo(df.signal, df.confidence)

\* results[ticker]
CycleEntry(signal, confidence, trade_result) ==
    [signal |-> signal, confidence |-> confidence, trade_result |-> trade_result]

\* lines 384-391: the entry that the except clause of the loop body stores
RaisedEntry ==
    CycleEntry(0, 0, TradeResult(FALSE, "hold", <<>>, NoOrder, FALSE))

\* lines 365-377: the body of the loop for one market up to its wait, with
\* the result of its call of execute_trade and the entry it stores.
\* get_signal and execute_trade catch what is raised inside them, so the
\* except clause of the loop body is reached only from the wait of line 380.
process_market(ticker, data, price, krw, coin, order_ok, cfg) ==
    LET signal_info == get_signal(data)
        Pass(trade_result) ==
            [executed |-> trade_result,
             entry |-> CycleEntry(signal_info.signal, signal_info.confidence,
                                  trade_result)]
    IN  Pass(execute_trade(ticker, signal_info.signal, signal_info.confidence,
                           price, krw, coin, order_ok, cfg))

\* a variant of the loop test that stops one market early
CycleDone_one_early(index, list) == index >= Len(list)

\* line 364: the loop over markets is exhausted
CycleDone(index, list) == index > Len(list)

\* line 362: results = {}
CycleBegin ==
    /\ cyc_pc \in {"idle", "returned"}
    /\ cyc_pc' = "running"
    /\ cyc_index' = 1
    /\ results' = EmptyMap
    /\ cycle_result' = EmptyMap
    /\ visits' = <<>>
    /\ UNCHANGED <<markets, risk_vars, trade_vars, fuse_vars, rebal_vars,
                   main_vars>>

\* the record of a pass that is in its wait; raised says that the except
\* clause of the loop body has written the entry
VisitRecord(ticker, data, price, krw, coin, order_ok, pass, before, after) ==
    [ticker |-> ticker, raised |-> FALSE, data |-> data, price |-> price,
     krw |-> krw, coin |-> coin, order_ok |-> order_ok, entry |-> pass.entry,
     executed |-> pass.executed,
     orders_before |-> before.orders, orders_after |-> after.orders,
     ledger_before |-> before.ledger, ledger_after |-> after.ledger]

\* a variant in which a sell of the strategy removes the entry of the ledger
CycleVisit_settles_ledger(data, price, krw, coin, order_ok) ==
    /\ cyc_pc = "running"
    /\ ~CycleDone(cyc_index, markets)
    /\ \E pass \in {process_market(markets[cyc_index], data, price, krw, coin,
                                    order_ok, trading)} :
       LET ticker == markets[cyc_index]
           r == pass.executed
       IN  /\ r.order = NoOrder => order_ok
           /\ r.stored => Len(orders) < MaxOrders
           /\ orders' = IF r.stored THEN Append(orders, r.order) ELSE orders
           /\ results' = Put(results, ticker, pass.entry)
           /\ positions' = IF r.action = "sell" /\ r.success
                           THEN Del(positions, ticker) ELSE positions
           /\ pos_order' = IF r.action = "sell" /\ r.success
                           THEN DelOrder(pos_order, ticker) ELSE pos_order
           /\ UNCHANGED <<use_trailing_stop, pc, it_index, it_used, actions,
                          risk_result, notified, steps, refreshed, held, queried,
                          created, exited, trailed>>
           /\ visits' = Append(visits,
                  VisitRecord(ticker, data, price, krw, coin, order_ok, pass,
                              [orders |-> Len(orders), ledger |-> positions],
                              [orders |-> Len(orders'), ledger |-> positions']))
    /\ cyc_pc' = "waiting"
    /\ UNCHANGED <<markets, cyc_index, cycle_result, trading, trade, fuse_vars,
                   rebal_vars, main_vars>>

\* lines 364-377: one pass of the loop body up to its wait: the order that
\* execute_trade stored is in the order table and the entry of the market is
\* in the map when the wait of line 380 starts
CycleVisit(data, price, krw, coin, order_ok) ==
    /\ cyc_pc = "running"
    /\ ~CycleDone(cyc_index, markets)
    /\ \E pass \in {process_market(markets[cyc_index], data, price, krw, coin,
                                    order_ok, trading)} :
       LET ticker == markets[cyc_index]
           r == pass.executed
       IN  /\ r.order = NoOrder => order_ok
           /\ orders' = IF r.stored THEN Append(orders, r.order) ELSE orders
           /\ results' = Put(results, ticker, pass.entry)
           /\ UNCHANGED <<risk_vars>>
           /\ visits' = Append(visits,
                  VisitRecord(ticker, data, price, krw, coin, order_ok, pass,
                              [orders |-> Len(orders), ledger |-> positions],
                              [orders |-> Len(orders'), ledger |-> positions']))
    /\ cyc_pc' = "waiting"
    /\ UNCHANGED <<markets, cyc_index, cycle_result, trading, trade, fuse_vars,
                   rebal_vars, main_vars>>

\* a pass where the orders stored by the strategy are bounded
BoundedVisit(data, price, krw, coin, order_ok) ==
    /\ CycleVisit(data, price, krw, coin, order_ok)
    /\ Len(orders') <= MaxOrders

\* lines 380-392: time.sleep(0.5) returns and the loop goes to the next
\* market, or it raises and the except clause of the loop body writes a
\* failed 'hold' over the entry of the market first
CycleWait(raised) ==
    /\ cyc_pc = "waiting"
    /\ cyc_pc' = "running"
    /\ cyc_index' = cyc_index + 1
    /\ results' = IF raised THEN Put(results, markets[cyc_index], RaisedEntry)
                  ELSE results
    /\ visits' = IF raised
                 THEN [visits EXCEPT ![Len(visits)].raised = TRUE,
                                     ![Len(visits)].entry = RaisedEntry]
                 ELSE visits
    /\ UNCHANGED <<markets, cycle_result, risk_vars, trade_vars, fuse_vars,
                   rebal_vars, main_vars>>

\* lines 394-397: the map is returned to the driver
ReturnTrades ==
    /\ cyc_pc = "running"
    /\ CycleDone(cyc_index, markets)
    /\ cycle_result' = results
    /\ cyc_pc' = "returned"
    /\ UNCHANGED <<markets, cyc_index, results, visits, risk_vars, trade_vars,
                   fuse_vars, rebal_vars>>

\* the return of the strategy's cycle where the driver's cycle is not followed
CycleReturn == ReturnTrades /\ UNCHANGED main_vars

\* the collaborator responses of one pass; a collaborator that the pass does
\* not reach gives no response
NextVisit ==
    \E data \in CycleData :
        LET signal_info == get_signal(data)
        IN  IF GateHolds(signal_info.signal, signal_info.confidence)
            THEN BoundedVisit(data, Absent, Absent, Absent, TRUE)
            ELSE \E price \in TradePrices :
                     IF price.absent
                     THEN BoundedVisit(data, price, Absent, Absent, TRUE)
                     ELSE \E krw \in CycleCash, coin \in CycleHeld,
                             order_ok \in BOOLEAN :
                              BoundedVisit(data, price, krw, coin, order_ok)

\* the wait of a pass returns or raises
NextWait == \E raised \in BOOLEAN : CycleWait(raised)

NextCycle == CycleBegin \/ NextVisit \/ NextWait \/ CycleReturn

\* the candles of a market where the driver's cycle is followed: a fused
\* signal of 0, 1 or -1 with a confidence that passes the gate
LedgerData == {Bars(0, 60), Bars(1, 60), Bars(-1, 60)}

\* one pass of the strategy's loop between two risk checks: 10 coins are
\* held at a price of 100 with 20000 KRW of cash
LedgerVisit ==
    \E data \in LedgerData :
        LET signal_info == get_signal(data)
        IN  IF GateHolds(signal_info.signal, signal_info.confidence)
            THEN BoundedVisit(data, Absent, Absent, Absent, TRUE)
            ELSE \E order_ok \in BOOLEAN :
                     BoundedVisit(data, Present(100), Present(20000),
                                  Present(10), order_ok)

\* no strategy cycle has run
InitCycle(lists) ==
    /\ markets \in lists
    /\ cyc_pc = "idle"
    /\ cyc_index = 1
    /\ results = EmptyMap
    /\ cycle_result = EmptyMap
    /\ visits = <<>>

\* the markets of the configuration where the strategy cycle is not followed
DefaultMarkets == {<<Ticker("BTC"), Ticker("ETH")>>}

(***************************************************************************)
(* TechnicalIndicators.get_combined_signal                                 *)
(*                                                                         *)
(* The fuser works row by row; the model follows one row.  A weight is a   *)
(* whole percent (0.3 -> 30), and so is the weighted sum.                  *)
(***************************************************************************)
\* the signal columns in the order get_combined_signal reads them
SignalColumns ==
    <<"ma_cross_signal", "rsi_signal", "rsi_divergence", "bb_signal",
      "volume_signal">>

AllSignalColumns == {SignalColumns[i] : i \in DOMAIN SignalColumns}

\* lines 303-321
Weight(column) ==
    CASE column = "ma_cross_signal" -> 30
      [] column = "rsi_signal" -> 20
      [] column = "rsi_divergence" -> 15
      [] column = "bb_signal" -> 20
      [] column = "volume_signal" -> 15

\* line 329: the threshold +-0.3
signal_threshold == 30

\* line 325: the sum over the columns present, from column i on
RECURSIVE WeightedFrom(_, _, _)
WeightedFrom(columns, row, i) ==
    IF i > Len(SignalColumns) THEN 0
    ELSE (IF SignalColumns[i] \in columns
          THEN row[SignalColumns[i]] * Weight(SignalColumns[i]) ELSE 0)
         + WeightedFrom(columns, row, i + 1)

weighted_signal(columns, row) == WeightedFrom(columns, row, 1)

\* line 325 adds binary64 numbers from left to right.  Of all rows of signals
\* in {-1, 0, 1} one sum and its mirror image are rounded across a threshold:
\* 0.3 + 0.2 + 0.15 - 0.2 - 0.15 evaluates to 0.30000000000000004.
RoundedPast(columns, row, sign) ==
    /\ columns = AllSignalColumns
    /\ row["ma_cross_signal"] = sign
    /\ row["rsi_signal"] = sign
    /\ row["rsi_divergence"] = sign
    /\ row["bb_signal"] = 0 - sign
    /\ row["volume_signal"] = 0 - sign

\* a variant that counts the signals and does not weigh them
get_combined_signal_unweighted(columns, row) ==
    LET votes == Cardinality({c \in columns : row[c] = 1})
                     - Cardinality({c \in columns : row[c] = -1})
    IN  IF votes > 0 THEN 1 ELSE IF votes < 0 THEN -1 ELSE 0

\* a variant whose thresholds are not strict
get_combined_signal_inclusive(columns, row) ==
    IF columns = {} THEN 0
    ELSE IF weighted_signal(columns, row) >= signal_threshold THEN 1
    ELSE IF weighted_signal(columns, row) <= 0 - signal_threshold THEN -1
    ELSE 0

\* lines 323-334: the fused signal of one row
get_combined_signal(columns, row) ==
    IF columns = {} THEN 0
    ELSE IF \/ weighted_signal(columns, row) > signal_threshold
            \/ RoundedPast(columns, row, 1)
    THEN 1
    ELSE IF \/ weighted_signal(columns, row) < 0 - signal_threshold
            \/ RoundedPast(columns, row, -1)
    THEN -1
    ELSE 0

(***************************************************************************)
(* CombinedStrategy._calculate_confidence                                  *)
(*                                                                         *)
(* A factor and the confidence are exact fractions [n, d] with d > 0.  A   *)
(* feature of the last row is a number or NaN: bb_bandwidth is a whole     *)
(* percent (0.03 -> 3), rsi14 a whole number, volume_ratio is in tenths    *)
(* (1.0 -> 10).                                                            *)
(***************************************************************************)
Frac(n, d) == [n |-> n, d |-> d]

Feature(v) == [nan |-> FALSE, v |-> v]

NaN == [nan |-> TRUE, v |-> 0]

\* min(1.0, max(0.0, num / den)); max(0.0, nan) is 0.0
Clamp01_unclamped(nan, num, den) == IF nan THEN Frac(0, den) ELSE Frac(num, den)

Clamp01(nan, num, den) ==
    IF nan \/ num <= 0 THEN Frac(0, den)
    ELSE IF num >= den THEN Frac(den, den)
    ELSE Frac(num, den)

\* the characters after the prefix 'ma' of the names of the columns that
\* start with 'ma', as code points: f'ma{period}' and 'ma_cross_signal'
RECURSIVE PeriodName(_)
PeriodName(period) ==
    IF period < 10 THEN <<48 + period>>
    ELSE PeriodName(period \div 10) \o <<48 + (period % 10)>>

CrossName == <<95, 99, 114, 111, 115, 115, 95, 115, 105, 103, 110, 97, 108>>

\* str < str
RECURSIVE LexLess(_, _)
LexLess(a, b) ==
    IF Len(b) = 0 THEN FALSE
    ELSE IF Len(a) = 0 THEN TRUE
    ELSE IF Head(a) # Head(b) THEN Head(a) < Head(b)
    ELSE LexLess(Tail(a), Tail(b))

\* Index.min() and Index.max() of the names
MinName(names) == CHOOSE n \in names : \A m \in names : m = n \/ LexLess(n, m)

MaxName(names) == CHOOSE n \in names : \A m \in names : m = n \/ LexLess(m, n)

\* add_moving_average: the periods of the three averages (its defaults)
ma_periods == [short |-> 9, long |-> 21, trend |-> 50]

MaNames ==
    {PeriodName(ma_periods.short), PeriodName(ma_periods.long),
     PeriodName(ma_periods.trend), CrossName}

\* df[name].iloc[-1] for a column that starts with 'ma'
MaValue(frame, name) ==
    IF name = CrossName THEN frame.cross
    ELSE IF name = PeriodName(ma_periods.short) THEN frame.ma.short
    ELSE IF name = PeriodName(ma_periods.long) THEN frame.ma.long
    ELSE frame.ma.trend

Abs(x) == IF x < 0 THEN 0 - x ELSE x

\* lines 132-139: the share of the four rows before the last one that have
\* the signal of the last row
SignalConsistency(history) ==
    LET n == Len(history)
        signal == history[n]
    IN  Frac(Cardinality({i \in 2..5 : i <= n /\ history[n + 1 - i] = signal}), 4)

\* lines 143-151
MaCrossStrength(frame) ==
    LET ma_short == MinName(MaNames)
        ma_long == MaxName(MaNames)
        diff == Abs(MaValue(frame, ma_short) - MaValue(frame, ma_long))
    IN  Clamp01(frame.ma.nan, 1000 * diff - frame.ma.close, 49 * frame.ma.close)

\* lines 154-158
BbConfidence(frame) ==
    LET c == Clamp01(frame.bb_bandwidth.nan, frame.bb_bandwidth.v - 3, 12)
    IN  Frac(c.d - c.n, c.d)

\* lines 161-171
RsiConfidence(frame) ==
    LET signal == frame.history[Len(frame.history)]
    IN  IF signal > 0
        THEN LET c == Clamp01(frame.rsi14.nan, frame.rsi14.v - 30, 20)
             IN  Frac(c.d - c.n, c.d)
        ELSE IF signal < 0
        THEN Clamp01(frame.rsi14.nan, frame.rsi14.v - 50, 20)
        ELSE Frac(1, 2)

\* lines 174-177
VolumeConfidence(frame) ==
    Clamp01(frame.volume_ratio.nan, frame.volume_ratio.v - 10, 20)

\* confidence_factors, in the order they are appended
confidence_factors(frame) ==
    <<SignalConsistency(frame.history)>>
    \o (IF "ma_cross_signal" \in frame.columns /\ frame.cross # 0
        THEN <<MaCrossStrength(frame)>> ELSE <<>>)
    \o (IF "bb_bandwidth" \in frame.columns THEN <<BbConfidence(frame)>> ELSE <<>>)
    \o (IF "rsi14" \in frame.columns THEN <<RsiConfidence(frame)>> ELSE <<>>)
    \o (IF "volume_ratio" \in frame.columns
        THEN <<VolumeConfidence(frame)>> ELSE <<>>)

\* sum(confidence_factors)
RECURSIVE SumFrac(_)
SumFrac(factors) ==
    IF Len(factors) = 0 THEN Frac(0, 1)
    ELSE LET rest == SumFrac(Tail(factors))
         IN  Frac(Head(factors).n * rest.d + rest.n * Head(factors).d,
                  Head(factors).d * rest.d)

\* lines 180-183: the mean of the factors
_calculate_confidence(frame) ==
    LET factors == confidence_factors(frame)
        total == SumFrac(factors)
    IN  IF Len(factors) > 0
        THEN Frac(total.n, total.d * Len(factors))
        ELSE Frac(1, 2)

(***************************************************************************)
(* TechnicalIndicators.add_indicators: which rows reach the fuser          *)
(*                                                                         *)
(* A frame of n bars has the rows 0 .. n-1.  A value column is NaN on the  *)
(* rows before the first one its window covers (the RSI also while the     *)
(* close has not changed); the frame records that row for every value      *)
(* column.  A signal column is set to 0 on every row and then to 1 or -1   *)
(* on the rows where its conditions hold; a condition                      *)
(* that reads a NaN is false, so the frame records for every signal column *)
(* the first row on which none of its operands is NaN: on the rows before  *)
(* it the 0 is the initial value, whatever the prices are.                 *)
(***************************************************************************)
Frame(closes, first, signals, dropped) ==
    [bars |-> Len(closes), closes |-> closes, first |-> first,
     signals |-> signals, dropped |-> dropped]

\* the frame of the candle query: open, high, low, close, volume, no NaN;
\* closes is its column 'close', the close of row i at closes[i + 1]
Candles(closes) == Frame(closes, EmptyMap, EmptyMap, FALSE)

\* the first row on which series.rolling(window) has a value
Rolling(window) == window - 1

\* the first row on which a column that reads column[row - 1] has a value
Shifted(first) == first + 1

\* lines 93-123; fails says that the first statement raises
add_moving_average(df, short_period, long_period, trend_period, fails) ==
    IF fails THEN df
    ELSE LET ma_short == Rolling(short_period)
             ma_long == Rolling(long_period)
             first == Put(Put(Put(df.first, "ma_short", ma_short),
                              "ma_long", ma_long),
                          "ma_trend", Rolling(trend_period))
         IN  Frame(df.closes, first,
                   Put(df.signals, "ma_cross_signal",
                       Max(Shifted(ma_short), Shifted(ma_long))),
                   df.dropped)

\* the first row whose close differs from the close of the row before, or
\* the number of rows if all closes are the same
FirstChange(closes) ==
    LET changes == {i \in 1..(Len(closes) - 1) : closes[i + 1] # closes[i]}
    IN  IF changes = {} THEN Len(closes)
        ELSE CHOOSE i \in changes : \A j \in changes : i <= j

\* lines 137-156; ta.rsi has no value on the first period rows, and none as
\* long as the close has not changed: the averages of the gains and of the
\* losses are both 0 and the RSI is 0 / 0
add_rsi(df, period, fails) ==
    IF fails THEN df
    ELSE LET rsi == Max(period, FirstChange(df.closes))
         IN  Frame(df.closes, Put(df.first, "rsi", rsi),
                   Put(df.signals, "rsi_signal", Shifted(rsi)), df.dropped)

\* lines 171-196: the column 'rsi14' is compared with itself window rows back
add_rsi_divergence(df, rsi_period, fails) ==
    IF fails \/ rsi_period # 14 \/ "rsi" \notin DOMAIN df.first THEN df
    ELSE Frame(df.closes, df.first,
               Put(df.signals, "rsi_divergence", df.first["rsi"] + 10), df.dropped)

\* lines 211-246
add_bollinger_bands(df, period, fails) ==
    IF fails THEN df
    ELSE LET bands == Rolling(period)
             first == [c \in DOMAIN df.first \cup
                            {"bb_middle", "bb_std", "bb_upper", "bb_lower",
                             "bb_bandwidth"} |->
                          IF c \in DOMAIN df.first THEN df.first[c] ELSE bands]
         IN  Frame(df.closes, first, Put(df.signals, "bb_signal", Shifted(bands)),
                   df.dropped)

\* lines 261-286: volume_surge needs volume_ratio, the signal also the close
\* of the row before
add_volume_indicators(df, period, fails) ==
    IF fails THEN df
    ELSE LET ratio == Rolling(period)
         IN  Frame(df.closes,
                   Put(Put(df.first, "volume_ma", ratio), "volume_ratio", ratio),
                   Put(df.signals, "volume_signal", Max(ratio, Shifted(0))),
                   df.dropped)

\* line 71: df.dropna()
dropna(df) == Frame(df.closes, df.first, df.signals, TRUE)

\* the rows of a frame
Rows(df) ==
    {i \in 0..(df.bars - 1) :
        df.dropped => \A c \in DOMAIN df.first : i >= df.first[c]}

\* the indicator functions that add_indicators calls; the KeyError of line 51
\* ends it before the Bollinger bands
CalledIndicators(config) ==
    LET ended == config.rsi.enabled /\ config.rsi.use_divergence = "missing"
    IN  (IF config.ma_crossover.enabled THEN {"ma_crossover"} ELSE {})
        \cup (IF config.rsi.enabled THEN {"rsi"} ELSE {})
        \cup (IF config.rsi.enabled /\ config.rsi.use_divergence = "True"
              THEN {"rsi_divergence"} ELSE {})
        \cup (IF config.bollinger.enabled /\ ~ended THEN {"bollinger"} ELSE {})
        \cup (IF config.volume.enabled /\ ~ended THEN {"volume"} ELSE {})

\* ta.rsi returns None for a series shorter than its length and line 139
\* makes it a column of None; lines 182-189 read the RSI of a row only if its
\* close differs from the close ten rows before ("and" does not evaluate its
\* right side otherwise), and None > None, None < None raise TypeError
DivergenceRaises(closes, config) ==
    /\ config.rsi.period = 14
    /\ Len(closes) < config.rsi.period
    /\ \E i \in 11..Len(closes) : closes[i] # closes[i - 10]

\* the indicator functions whose except clause runs (lines 121, 154, 194,
\* 244, 284)
Raised(closes, config, fails) ==
    (fails \cap CalledIndicators(config))
    \cup (IF /\ "rsi_divergence" \in CalledIndicators(config)
             /\ "rsi" \notin fails
             /\ DivergenceRaises(closes, config)
          THEN {"rsi_divergence"} ELSE {})

\* a variant whose indicator functions have no except clause: the first one
\* that raises ends add_indicators at line 77
add_indicators_unguarded(df, config, fails) ==
    LET ma == IF config.ma_crossover.enabled
              THEN add_moving_average(df, config.ma_crossover.short_period,
                       config.ma_crossover.long_period,
                       config.ma_crossover.trend_period, FALSE)
              ELSE df
        rsi == IF config.rsi.enabled
               THEN add_rsi(ma, config.rsi.period, FALSE)
               ELSE ma
        divergence == IF config.rsi.enabled /\ config.rsi.use_divergence = "True"
                      THEN add_rsi_divergence(rsi, config.rsi.period, FALSE)
                      ELSE rsi
        bollinger == IF config.bollinger.enabled
                     THEN add_bollinger_bands(divergence, config.bollinger.period,
                                              FALSE)
                     ELSE divergence
        volume == IF config.volume.enabled
                  THEN add_volume_indicators(bollinger, config.volume.period, FALSE)
                  ELSE bollinger
        raised == Raised(df.closes, config, fails)
    IN  IF "ma_crossover" \in raised THEN df
        ELSE IF "rsi" \in raised THEN ma
        ELSE IF "rsi_divergence" \in raised THEN rsi
        ELSE IF config.rsi.enabled /\ config.rsi.use_divergence = "missing"
        THEN rsi
        ELSE IF "bollinger" \in raised THEN divergence
        ELSE IF "volume" \in raised THEN bollinger
        ELSE dropna(volume)

\* lines 33-77: add_indicators; fails names the indicator functions whose
\* first statement raises, and a configuration of rsi without the key
\* 'use_divergence' raises KeyError at line 51, which ends the function at
\* line 77
add_indicators(df, config, fails) ==
    LET ma == IF config.ma_crossover.enabled
              THEN add_moving_average(df, config.ma_crossover.short_period,
                       config.ma_crossover.long_period,
                       config.ma_crossover.trend_period, "ma_crossover" \in fails)
              ELSE df
        rsi == IF config.rsi.enabled
               THEN add_rsi(ma, config.rsi.period, "rsi" \in fails)
               ELSE ma
        divergence == IF config.rsi.enabled /\ config.rsi.use_divergence = "True"
                      THEN add_rsi_divergence(rsi, config.rsi.period,
                                              "rsi_divergence" \in fails)
                      ELSE rsi
        bollinger == IF config.bollinger.enabled
                     THEN add_bollinger_bands(divergence, config.bollinger.period,
                                              "bollinger" \in fails)
                     ELSE divergence
        volume == IF config.volume.enabled
                  THEN add_volume_indicators(bollinger, config.volume.period,
                                             "volume" \in fails)
                  ELSE bollinger
    IN  IF config.rsi.enabled /\ config.rsi.use_divergence = "missing"
        THEN rsi
        ELSE dropna(volume)

\* the cells of the signal columns that get_combined_signal reads at line 62
\* of update_market_data
FusedCells(df) == {<<c, i>> : c \in DOMAIN df.signals, i \in Rows(df)}

\* the cells among them that hold the initial 0 of their column
DefaultedCells(df) == {cell \in FusedCells(df) : cell[2] < df.signals[cell[1]]}

(***************************************************************************)
(* The fuser applied to one frame                                          *)
(***************************************************************************)
NoFrame == [kind |-> "none"]

\* the signal columns whose 1 and -1 depend on the direction of the bar:
\* rsi_signal is 1 where the RSI came up to 30 from below and -1 where it
\* came down to 70 from above (lines 145, 149), and the RSI of a bar is above
\* (below) that of the bar before only if the close is; bb_signal is 1 only
\* with close > close.shift(1) and -1 only with close < close.shift(1)
\* (lines 237-245), and so is volume_signal (lines 279, 283)
BarColumns == {"rsi_signal", "bb_signal", "volume_signal"}

\* the direction of a bar: its close is below, at or above the close before
BarDirections == {-1, 0, 1}

\* the sets of signal columns add_indicators leaves: rsi_divergence is added
\* to a frame that has the RSI (lines 51-52, 174-176)
FusedColumns ==
    {c \in SUBSET AllSignalColumns :
        "rsi_divergence" \in c => "rsi_signal" \in c}

\* a row of the frame add_indicators returns: a signal of a column that
\* follows the bar is 0 or the direction of the bar
RowOfBar(columns, row, bar) ==
    \A c \in columns \cap BarColumns : row[c] \in {0, bar}

\* the rows update_market_data hands to the fuser (lines 59-62)
SignalFrames ==
    {f \in [kind : {"signal"}, columns : FusedColumns,
            row : [AllSignalColumns -> {-1, 0, 1}]] :
        \E bar \in BarDirections : RowOfBar(f.columns, f.row, bar)}

Histories ==
    {<<1>>, <<1, 1>>, <<0, 1, 1, 1, 1>>, <<1, 1, 1, 1, 1>>, <<1, 0, 0, 0, 0>>,
     <<-1, -1, -1, -1, -1>>, <<-1, 1, -1, -1>>, <<0, 0, 0>>}

FeatureColumns == {"ma_cross_signal", "bb_bandwidth", "rsi14", "volume_ratio"}

MaRows ==
    {[nan |-> FALSE, short |-> 101, long |-> 100, trend |-> 99, close |-> 100],
     [nan |-> FALSE, short |-> 1, long |-> 1, trend |-> 1, close |-> 1],
     [nan |-> TRUE, short |-> 0, long |-> 0, trend |-> 0, close |-> 100]}

Bandwidths == {NaN, Feature(2), Feature(9), Feature(16)}

RsiValues == {NaN, Feature(25), Feature(40), Feature(60), Feature(75)}

VolumeRatios == {NaN, Feature(5), Feature(20), Feature(35)}

\* the frames _calculate_confidence is applied to; a column that the frame
\* does not have has no value
ConfidenceFrames ==
    {f \in [kind : {"confidence"}, history : Histories,
            columns : SUBSET FeatureColumns, cross : {-1, 0, 1}, ma : MaRows,
            bb_bandwidth : Bandwidths, rsi14 : RsiValues,
            volume_ratio : VolumeRatios] :
        /\ "ma_cross_signal" \notin f.columns => (f.cross = 0 /\ f.ma.nan)
        /\ "bb_bandwidth" \notin f.columns => f.bb_bandwidth = NaN
        /\ "rsi14" \notin f.columns => f.rsi14 = NaN
        /\ "volume_ratio" \notin f.columns => f.volume_ratio = NaN}

\* config['strategy']: the periods are the defaults of the indicator
\* functions, or shorter ones
MaConfigs ==
    {[enabled |-> e, short_period |-> p[1], long_period |-> p[2],
      trend_period |-> p[3]] :
        e \in BOOLEAN, p \in {<<9, 21, 50>>, <<2, 3, 5>>}}

RsiConfigs ==
    {[enabled |-> e, period |-> p, use_divergence |-> d] :
        e \in BOOLEAN, p \in {14, 7}, d \in {"True", "False", "missing"}}

WindowConfigs == {[enabled |-> e, period |-> p] : e \in BOOLEAN, p \in {20, 5}}

\* a disabled indicator is written once
StrategyConfigs ==
    {c \in [ma_crossover : MaConfigs, rsi : RsiConfigs, bollinger : WindowConfigs,
            volume : WindowConfigs] :
        /\ ~c.ma_crossover.enabled => c.ma_crossover.short_period = 9
        /\ ~c.rsi.enabled => c.rsi.period = 14 /\ c.rsi.use_divergence = "False"
        /\ ~c.bollinger.enabled => c.bollinger.period = 20
        /\ ~c.volume.enabled => c.volume.period = 20}

\* the number of bars the candle query returned
BarCounts == {1, 6, 12, 15, 20, 25, 50, 51, 100}

IndicatorNames == {"ma_crossover", "rsi", "rsi_divergence", "bollinger", "volume"}

\* the closes of n bars: all the same, rising, falling, or the same but for
\* the last one
CloseShapes == {"flat", "rising", "falling", "late"}

Closes(shape, n) ==
    [i \in 1..n |-> IF shape = "rising" THEN 100 + i
                    ELSE IF shape = "falling" THEN 1000 - i
                    ELSE IF shape = "late" /\ i = n THEN 101
                    ELSE 100]

\* at most one indicator function raises
IndicatorFrames ==
    {[kind |-> "indicators", closes |-> Closes(s, n), config |-> c, fails |-> f] :
        n \in BarCounts, s \in CloseShapes, c \in StrategyConfigs,
        f \in {{}} \cup {{x} : x \in IndicatorNames}}

NotFused == [done |-> FALSE]

InitFuse(frames) ==
    /\ fuse_in \in frames
    /\ fuse_out = NotFused

\* update_market_data line 62: df['signal'] = get_combined_signal(df)
FuseSignal ==
    /\ fuse_in.kind = "signal"
    /\ fuse_out = NotFused
    /\ fuse_out' = [done |-> TRUE,
                    signal |-> get_combined_signal(fuse_in.columns, fuse_in.row)]
    /\ UNCHANGED <<fuse_in, risk_vars, trade_vars, cycle_vars, rebal_vars,
                   main_vars>>

\* get_signal line 96: confidence = self._calculate_confidence(df)
FuseConfidence ==
    /\ fuse_in.kind = "confidence"
    /\ fuse_out = NotFused
    /\ fuse_out' = [done |-> TRUE, confidence |-> _calculate_confidence(fuse_in)]
    /\ UNCHANGED <<fuse_in, risk_vars, trade_vars, cycle_vars, rebal_vars,
                   main_vars>>

\* update_market_data lines 58-62: the indicators are added to the candles
\* and the frame is handed to the fuser
AddIndicators ==
    /\ fuse_in.kind = "indicators"
    /\ fuse_out = NotFused
    /\ LET df == add_indicators(Candles(fuse_in.closes), fuse_in.config,
                                fuse_in.fails)
       IN  fuse_out' = [done |-> TRUE, df |-> df, rows |-> Rows(df),
                        fused |-> FusedCells(df), defaulted |-> DefaultedCells(df),
                        raised |-> Raised(fuse_in.closes, fuse_in.config,
                                          fuse_in.fails)]
    /\ UNCHANGED <<fuse_in, risk_vars, trade_vars, cycle_vars, rebal_vars,
                   main_vars>>

NextFuse == FuseSignal \/ FuseConfidence \/ AddIndicators

(***************************************************************************)
(* RiskManager.check_portfolio_risk and RiskManager.rebalance_portfolio    *)
(*                                                                         *)
(* A ratio is a whole percent (0.3 -> 30) and is compared by cross         *)
(* multiplication; a value in KRW is stored times 100 where it comes from  *)
(* a ratio (excess, deficit, the cash of phase 2); the quantity of a sell  *)
(* is the exact fraction excess / price.  Values are exact; the test       *)
(* against the 5000 KRW minimum is decided as binary64 decides it          *)
(* (BelowMinimum).                                                         *)
(***************************************************************************)
\* "x or 0", "x or []"
OrZero(response) == IF response.absent THEN 0 ELSE response.value

Exposure(value, quantity, price) ==
    [value |-> value, quantity |-> quantity, price |-> price]

\* an entry of the balances response that is no balance record: line 370
\* (balance['currency']) or line 377 (balance['balance']) raises on it
Malformed(entry) ==
    \/ "currency" \notin DOMAIN entry
    \/ entry.currency # "KRW" /\ "balance" \notin DOMAIN entry

\* lines 369-399: the loop over the balances, from entry i on; acc holds
\* total_value and portfolio_exposure with its key order, and raised once an
\* entry has raised
RECURSIVE ExposureLoop(_, _, _, _)
ExposureLoop(list, price, i, acc) ==
    IF i > Len(list) THEN acc
    ELSE IF Malformed(list[i]) THEN [acc EXCEPT !.raised = TRUE]
    ELSE LET currency == list[i].currency
             balance == list[i].balance
             ticker == Ticker(currency)
         IN  IF currency = "KRW" \/ balance <= 0 \/ price[ticker] = NoPrice
             THEN ExposureLoop(list, price, i + 1, acc)
             ELSE ExposureLoop(list, price, i + 1,
                      [total_value |-> acc.total_value + balance * price[ticker],
                       exposure |-> Put(acc.exposure, ticker,
                                        Exposure(balance * price[ticker], balance,
                                                 price[ticker])),
                       order |-> PutOrder(acc.order, ticker),
                       raised |-> FALSE])

\* line 403: the largest value of an exposure, 0 if there is none; the ratios
\* share the divisor total_balance, so the largest ratio is that of the
\* largest value
MaxExposure(exposure) ==
    IF DOMAIN exposure = {} THEN 0
    ELSE LET top == CHOOSE t \in DOMAIN exposure :
                        \A u \in DOMAIN exposure : exposure[u].value <= exposure[t].value
         IN  exposure[top].value

\* a variant whose thresholds are not strict
RiskLevel_inclusive(max_value, total) ==
    IF total > 0 /\ max_value * 100 >= 50 * total THEN "high"
    ELSE IF total > 0 /\ max_value * 100 >= 30 * total THEN "medium"
    ELSE "low"

\* lines 399-408: risk_level from max_exposure = max_value / total; a ratio
\* is 0 when total_value is not positive
RiskLevel(max_value, total) ==
    IF total > 0 /\ max_value * 100 > 50 * total THEN "high"
    ELSE IF total > 0 /\ max_value * 100 > 30 * total THEN "medium"
    ELSE "low"

\* lines 422-430: the result of the except clause
UnknownPortfolio ==
    [total_balance |-> 0, krw_balance |-> 0, portfolio_exposure |-> EmptyMap,
     order |-> <<>>, risk_level |-> "unknown"]

\* lines 360-430: total_balance, krw_balance, portfolio_exposure and
\* risk_level, the ratio of an exposure being value / total_balance; the
\* result of the except clause when an entry of the response raises
check_portfolio_risk(krw, balances, price) ==
    LET krw_balance == OrZero(krw)
        list == IF balances.absent THEN <<>> ELSE balances.list
        p == ExposureLoop(list, price, 1,
                          [total_value |-> krw_balance, exposure |-> EmptyMap,
                           order |-> <<>>, raised |-> FALSE])
    IN  IF p.raised THEN UnknownPortfolio
        ELSE [total_balance |-> p.total_value, krw_balance |-> krw_balance,
              portfolio_exposure |-> p.exposure, order |-> p.order,
              risk_level |-> RiskLevel(MaxExposure(p.exposure), p.total_value)]

\* current_ratio > target_ratio, current_ratio < target_ratio
RatioAbove(value, total, target) == value * 100 > target * total

RatioBelow(value, total, target) == value * 100 < target * total

\* target_allocations.get(ticker, 0)
TargetOf(targets, ticker) ==
    LET hits == {i \in DOMAIN targets : targets[i].ticker = ticker}
    IN  IF hits = {} THEN 0 ELSE targets[CHOOSE i \in hits : TRUE].ratio

\* lines 481-487: the entry of a sell, its value times 100
SellAction(ticker, quantity, value) ==
    [action |-> "sell", ticker |-> ticker, quantity |-> quantity,
     value |-> value]

BuyAction(ticker, value) ==
    [action |-> "buy", ticker |-> ticker, quantity |-> Frac(0, 1), value |-> value]

RebalanceResult(success, executed, calls) ==
    [success |-> success, actions |-> executed, calls |-> calls]

\* lines 470-474: min(excess_value / price, quantity)
SellQuantity(exposure, total, target) ==
    LET excess == exposure.value * 100 - target * total
    IN  IF excess <= exposure.quantity * exposure.price * 100
        THEN Frac(excess, exposure.price * 100)
        ELSE Frac(exposure.quantity, 1)

\* line 485: sell_quantity * exposure['price'], times 100
SellValue(exposure, total, target) ==
    Min(exposure.value * 100 - target * total,
        exposure.quantity * exposure.price * 100)

\* a variant without the cap by the cash that is left
DeficitValue_uncapped(deficit, krw_balance) == deficit

\* lines 513-517: the deficit, capped by the cash that is left
DeficitValue(deficit, krw_balance) ==
    IF deficit > krw_balance THEN krw_balance ELSE deficit

\* lines 510-517 in binary64: (target_ratio - current_ratio) * total_balance
\* with current_ratio = value / total_value (line 403), capped by the float
\* of the cash that is left
DeficitFloat(ratio, value, total, krw_float) ==
    LET deficit == FloatMul(FloatSub(FloatOfRatio(ratio, 100),
                                     FloatDiv(FloatOfInt(value), total)),
                            FloatOfInt(total))
    IN  IF FloatLess(krw_float, deficit) THEN krw_float ELSE deficit

\* lines 502-536: the loop over target_allocations, from entry i on;
\* krw_balance is the exact cash that is left, times 100, and krw_float the
\* float the program holds for it
RECURSIVE BuyLoop(_, _, _, _, _, _, _, _)
BuyLoop(portfolio, targets, buy_ok, i, krw_balance, krw_float, executed, calls) ==
    IF i > Len(targets) THEN RebalanceResult(TRUE, executed, calls)
    ELSE LET ticker == targets[i].ticker
             value == IF ticker \in DOMAIN portfolio.portfolio_exposure
                      THEN portfolio.portfolio_exposure[ticker].value ELSE 0
             total == portfolio.total_balance
             deficit == targets[i].ratio * total - value * 100
             deficit_value == DeficitValue(deficit, krw_balance)
             deficit_float == DeficitFloat(targets[i].ratio, value, total,
                                           krw_float)
             buy == BuyAction(ticker, deficit_value)
         IN  IF ticker = "KRW" \/ ~RatioBelow(value, total, targets[i].ratio)
                \/ BelowMinimum(deficit_value, deficit_float)
             THEN BuyLoop(portfolio, targets, buy_ok, i + 1, krw_balance,
                          krw_float, executed, calls)
             ELSE IF buy_ok[ticker]
             THEN BuyLoop(portfolio, targets, buy_ok, i + 1,
                          krw_balance - deficit_value,
                          FloatSub(krw_float, deficit_float),
                          Append(executed, buy), Append(calls, buy))
             ELSE RebalanceResult(FALSE, executed, Append(calls, buy))

\* line 496: time.sleep(1)
SleepCall ==
    [action |-> "sleep", ticker |-> "", quantity |-> Frac(0, 1), value |-> 0]

\* line 499: self.api.get_balance("KRW")
CashCall ==
    [action |-> "get_balance", ticker |-> "KRW", quantity |-> Frac(0, 1),
     value |-> 0]

\* lines 499-536: after the wait, the cash balance read again and the buys
BuyPhase(portfolio, targets, buy_ok, krw2, executed, calls) ==
    BuyLoop(portfolio, targets, buy_ok, 1, OrZero(krw2) * 100,
            FloatOfInt(OrZero(krw2)), executed, Append(calls, CashCall))

\* where the call is after its sell loop: it has returned, or it waits in
\* time.sleep(1) of line 496 with the sells it executed
SellsDone(executed, calls) ==
    [returned |-> FALSE,
     result |-> RebalanceResult(TRUE, executed, Append(calls, SleepCall))]

\* a variant that goes on to the wait and the buys after a rejected sell
SellRejected_buys_anyway(executed, calls) == SellsDone(executed, calls)

\* lines 487-492: the return after a rejected sell
SellRejected(executed, calls) ==
    [returned |-> TRUE, result |-> RebalanceResult(FALSE, executed, calls)]

\* lines 463-496: the loop over portfolio_exposure, from entry i on, up to
\* the wait
RECURSIVE SellLoop(_, _, _, _, _, _)
SellLoop(portfolio, targets, sell_ok, i, executed, calls) ==
    IF i > Len(portfolio.order)
    THEN SellsDone(executed, calls)
    ELSE LET ticker == portfolio.order[i]
             exposure == portfolio.portfolio_exposure[ticker]
             target == TargetOf(targets, ticker)
             sell == SellAction(ticker,
                                SellQuantity(exposure, portfolio.total_balance,
                                             target),
                                SellValue(exposure, portfolio.total_balance,
                                          target))
         IN  IF RatioAbove(exposure.value, portfolio.total_balance, target)
                /\ sell.quantity.n > 0
             THEN IF sell_ok[ticker]
                  THEN SellLoop(portfolio, targets, sell_ok, i + 1,
                                Append(executed, sell), Append(calls, sell))
                  ELSE SellRejected(executed, Append(calls, sell))
             ELSE SellLoop(portfolio, targets, sell_ok, i + 1, executed, calls)

\* lines 448-496: the portfolio query and the sells, up to the return of
\* lines 452-457 or 487-492, or to the wait
SellPhase(portfolio, targets, sell_ok) ==
    IF portfolio.total_balance <= 0
    THEN [returned |-> TRUE, result |-> RebalanceResult(FALSE, <<>>, <<>>)]
    ELSE SellLoop(portfolio, targets, sell_ok, 1, <<>>, <<>>)

\* the result of rebalance_portfolio(target_allocations) with the calls it
\* made after check_portfolio_risk (orders, the wait, the cash query), in
\* their order
rebalance_portfolio(targets, krw, balances, price, sell_ok, buy_ok, krw2) ==
    LET portfolio == check_portfolio_risk(krw, balances, price)
        sold == SellPhase(portfolio, targets, sell_ok)
    IN  IF sold.returned THEN sold.result
        ELSE BuyPhase(portfolio, targets, buy_ok, krw2, sold.result.actions,
                      sold.result.calls)

\* the inputs of one rebalance: balances are in whole coins here
Target(ticker, ratio) == [ticker |-> ticker, ratio |-> ratio]

\* target_allocations, in the key order of the dict
TargetLists ==
    {<<Target("KRW-BTC", 50), Target("KRW-ETH", 50)>>,
     <<Target("KRW-ETH", 50), Target("KRW-BTC", 50)>>,
     <<Target("KRW-BTC", 20), Target("KRW", 50), Target("KRW-ETH", 30)>>,
     <<Target("KRW", 100)>>,
     <<Target("KRW-ETH", 10)>>,
     <<Target("KRW-BTC", 100)>>}

RebalanceHoldings == {0, 1, 3}

RebalanceLists ==
    {<<[currency |-> "KRW", balance |-> 1], [currency |-> c1, balance |-> b1],
       [currency |-> c2, balance |-> b2]>> :
        <<c1, c2, b1, b2>> \in
            {x \in Coins \X Coins \X RebalanceHoldings \X RebalanceHoldings :
                x[1] # x[2]}}

\* responses that are no list of balance records: the keys of an error
\* response, alone or after records that were read before it
ErrorKey == [error |-> "invalid_query_payload"]

MalformedLists ==
    {<<ErrorKey>>,
     <<[currency |-> "KRW", balance |-> 1], [currency |-> "BTC", balance |-> 3],
       ErrorKey>>,
     <<[currency |-> "KRW", balance |-> 1], [currency |-> "ETH"]>>}

RebalanceBalances ==
    {[absent |-> TRUE, list |-> <<>>]} \cup
        {[absent |-> FALSE, list |-> l] : l \in RebalanceLists \cup MalformedLists}

RebalancePrices == [Tickers -> {10000, NoPrice}]

RebalanceCash == {Absent, Present(0), Present(20000), Present(60000)}

RebalanceCashAfter == {Absent, Present(4000), Present(25000), Present(60000)}

RebalanceInput(targets, krw, balances, price, sell_ok, buy_ok, krw2) ==
    [called |-> TRUE, targets |-> targets, krw |-> krw, balances |-> balances,
     price |-> price, sell_ok |-> sell_ok, buy_ok |-> buy_ok, krw2 |-> krw2]

NoRebalance ==
    [called |-> FALSE, targets |-> <<>>, krw |-> Absent,
     balances |-> [absent |-> TRUE, list |-> <<>>],
     price |-> [t \in Tickers |-> NoPrice], sell_ok |-> [t \in Tickers |-> TRUE],
     buy_ok |-> [t \in Tickers |-> TRUE], krw2 |-> Absent]

\* inputs whose deficit is the 5000 KRW minimum in exact arithmetic: 30 % of
\* 50000 with 10000 held, which binary64 computes as 4999.999999999999, and
\* 11000 of cash with a first buy for 6000, which leaves 4999.999999999999
RebalanceBoundaries ==
    {RebalanceInput(b.targets, Present(b.krw),
                    [absent |-> FALSE,
                     list |-> <<[currency |-> "KRW", balance |-> 1],
                                [currency |-> "BTC", balance |-> 1],
                                [currency |-> "ETH", balance |-> b.eth]>>],
                    [t \in Tickers |-> 10000], [t \in Tickers |-> TRUE], buy_ok,
                    Present(b.krw2)) :
        b \in {[targets |-> <<Target("KRW-BTC", 30)>>, krw |-> 40000, eth |-> 0,
                krw2 |-> 60000],
               [targets |-> <<Target("KRW-BTC", 20), Target("KRW-ETH", 20)>>,
                krw |-> 60000, eth |-> 1, krw2 |-> 11000]},
        buy_ok \in [Tickers -> BOOLEAN]}

RebalanceInputs ==
    {RebalanceInput(targets, krw, balances, price, sell_ok, buy_ok, krw2) :
        targets \in TargetLists, krw \in RebalanceCash,
        balances \in RebalanceBalances, price \in RebalancePrices,
        sell_ok \in [Tickers -> BOOLEAN], buy_ok \in [Tickers -> BOOLEAN],
        krw2 \in RebalanceCashAfter}
        \cup RebalanceBoundaries

NotRebalanced ==
    [returned |-> FALSE, waiting |-> FALSE,
     result |-> RebalanceResult(FALSE, <<>>, <<>>),
     portfolio |-> check_portfolio_risk(Absent, [absent |-> TRUE, list |-> <<>>],
                                        [t \in Tickers |-> NoPrice])]

InitRebalance(inputs) ==
    /\ rebal_in \in inputs
    /\ rebal_out = NotRebalanced

\* lines 448-496: rebalance_portfolio(target_allocations) is called, queries
\* the portfolio and sells; it returns, or waits in time.sleep(1)
RebalanceSells ==
    /\ rebal_in.called
    /\ ~rebal_out.returned
    /\ ~rebal_out.waiting
    /\ LET portfolio == check_portfolio_risk(rebal_in.krw, rebal_in.balances,
                                             rebal_in.price)
           sold == SellPhase(portfolio, rebal_in.targets, rebal_in.sell_ok)
       IN  rebal_out' = [returned |-> sold.returned, waiting |-> ~sold.returned,
                         result |-> sold.result, portfolio |-> portfolio]
    /\ UNCHANGED <<rebal_in, risk_vars, trade_vars, cycle_vars, fuse_vars,
                   main_vars>>

\* lines 499-543: the wait is over; the cash is read again, the buys are
\* submitted and the call returns
RebalanceBuys ==
    /\ rebal_out.waiting
    /\ rebal_out' =
           [returned |-> TRUE, waiting |-> FALSE,
            result |-> BuyPhase(rebal_out.portfolio, rebal_in.targets,
                                rebal_in.buy_ok, rebal_in.krw2,
                                rebal_out.result.actions, rebal_out.result.calls),
            portfolio |-> rebal_out.portfolio]
    /\ UNCHANGED <<rebal_in, risk_vars, trade_vars, cycle_vars, fuse_vars,
                   main_vars>>


(***************************************************************************)
(* main.py: the stop flag, the scheduler loop and the trading cycle        *)
(*                                                                         *)
(* A position of main() is the line it is about to execute.  The blocks    *)
(* of main.run_trading_cycle follow each other; a block that raises takes  *)
(* the cycle to its except clause.  The strategy's cycle of line 77 and    *)
(* the risk check of line 92 are the calls themselves: the strategy takes  *)
(* one step per market, which ends in its time.sleep(0.5), the risk check  *)
(* one step per position, a loop of notifications one step per call of the *)
(* notifier and one step that leaves the loop.  The trades of a cycle are  *)
(* summarised by market, action, success and whether the entry was written *)
(* by the except clause of the strategy's loop body.                       *)
(* The handler of a termination signal runs between two steps of the main  *)
(* thread.  What the exchange, the candles and Telegram answer during a    *)
(* run is fixed when the run starts; when the schedule is due and when the *)
(* signal arrives is open at every step.                                   *)
(***************************************************************************)
\* the number of cycles the scheduler starts at most in the model
MaxCycles == 2

\* the blocks of run_trading_cycle, in their order: lines 77, 80-89, 92,
\* 95-100 and 103-113
Phases == <<"strategy", "notify_trades", "risk", "notify_risk", "portfolio">>

PhaseIndex(name) == CHOOSE i \in DOMAIN Phases : Phases[i] = name

\* what bot.send_message does: it sends, raises a TelegramError, or raises
\* another exception
SendOutcomes == {"sent", "telegram_error", "other_error"}

\* lines 77-96: send_message_async gives True, False, or raises
send_message_async(enabled, outcome) ==
    IF ~enabled THEN "False"
    ELSE CASE outcome = "sent" -> "True"
           [] outcome = "telegram_error" -> "False"
           [] OTHER -> "raise"

\* a variant without the except clause of lines 118-120
send_message_unguarded(enabled, outcome) ==
    IF ~enabled THEN "False" ELSE send_message_async(enabled, outcome)

\* lines 98-120: send_message
send_message(enabled, outcome) ==
    IF ~enabled THEN "False"
    ELSE IF send_message_async(enabled, outcome) = "raise" THEN "False"
    ELSE send_message_async(enabled, outcome)

\* what a call of the notifier meets: one of the outcomes of the send, or
\* before it a value of details that the format of the message does not
\* take (lines 147-155, 199-212 and 236-250, outside any try block)
NotifyOutcomes == SendOutcomes \cup {"format_error"}

\* notify_trade, notify_risk_action and notify_portfolio: False when the
\* notifier is off; else the message is built, which raises on a format
\* error, and handed to send_message
notify(kind, enabled, outcome) ==
    [kind |-> kind, outcome |-> IF enabled THEN outcome ELSE "disabled",
     result |-> IF ~enabled THEN "False"
                ELSE IF outcome = "format_error" THEN "raise"
                ELSE send_message(enabled, outcome)]

\* notify_error: its message is built from two strings, which no format
\* refuses, and handed to send_message
notify_error(enabled, outcome) ==
    notify("error", enabled, IF outcome = "format_error" THEN "sent" ELSE outcome)

\* the summary of results[ticker]; raised says that the except clause of the
\* strategy's loop body wrote the entry
TradeSummary(ticker, raised, entry) ==
    [ticker |-> ticker, action |-> entry.trade_result.action,
     success |-> entry.trade_result.success, raised |-> raised]

\* line 80: cycle_result['trades'].items(), in the order of the dict, which
\* is the order of the passes
TradesOf(passes) ==
    [i \in DOMAIN passes |->
        TradeSummary(passes[i].ticker, passes[i].raised, passes[i].entry)]

\* line 95: risk_actions.get('actions', {}).items(), in the order of the
\* dict, which is the order of the evaluations
RiskActionsOf(evaluated, result_map) ==
    LET listed == SelectSeq(evaluated, LAMBDA s : s.ticker \in DOMAIN result_map)
    IN  [i \in DOMAIN listed |->
            [ticker |-> listed[i].ticker,
             action |-> result_map[listed[i].ticker].action]]

\* lines 85 and 96: the entries that are notified
NotHold(entries) == SelectSeq(entries, LAMBDA e : e.action # "hold")

\* what the calls of the notifier in one loop meet, one after the other
SendLists == [1..Cardinality(Tickers) -> NotifyOutcomes]

\* the calls of the notifier of one kind that the cycle has made
Notified(kind) == Len(SelectSeq(notices, LAMBDA n : n.kind = kind))

\* the responses of one pass of the strategy's loop: the candles give a
\* signal, the exchange takes or rejects the order, and the wait of the pass
\* returns or raises
MainPasses ==
    {p \in [raised : BOOLEAN, data : LedgerData, order_ok : BOOLEAN] :
        LET signal_info == get_signal(p.data)
        IN  GateHolds(signal_info.signal, signal_info.confidence) => p.order_ok}

\* the pass of a market that gives the named action
PassOf(bars, order_ok) == [raised |-> FALSE, data |-> bars, order_ok |-> order_ok]

\* the responses of one risk check: one unit of KRW and the given balances
\* of BTC and ETH, every held coin at the given price
CheckOf(btc, eth, current_price, order_ok) ==
    LET list == <<BalanceRecord("KRW", 1), BalanceRecord("BTC", btc),
                  BalanceRecord("ETH", eth)>>
        balances == [absent |-> FALSE, list |-> list]
    IN  [balances |-> balances,
         price |-> [t \in Tickers |->
                       IF t \in HeldIn(balances) THEN current_price ELSE NoPrice],
         order_ok |-> order_ok]

\* get_balance() gives nothing
NoCheck ==
    [balances |-> [absent |-> TRUE, list |-> <<>>],
     price |-> [t \in Tickers |-> NoPrice], order_ok |-> TRUE]

\* the risk checks of a run, cycle by cycle (the last one repeats): nothing
\* is held; BTC stays at 100; BTC rises from 100 to 110 (take profit); BTC
\* falls from 110 to 100 (stop loss); both coins rise from 100 to 110
MainChecks ==
    {<<NoCheck>>, <<CheckOf(1, 0, 100, TRUE)>>,
     <<CheckOf(1, 1, 100, TRUE), CheckOf(1, 1, 110, TRUE)>>} \cup
    {<<CheckOf(1, 0, 100, TRUE), CheckOf(1, 0, 110, order_ok)>> :
        order_ok \in BOOLEAN} \cup
    {<<CheckOf(1, 0, 110, TRUE), CheckOf(1, 0, 100, order_ok)>> :
        order_ok \in BOOLEAN}

\* the block of the cycle that raises outside the calls that catch
RaisingBlocks == {"none", "strategy", "risk", "portfolio"}

AllSent == [i \in 1..Cardinality(Tickers) |-> "sent"]

MainInput(enabled, passes, checks, send, quarter, raises) ==
    [enabled |-> enabled, passes |-> passes, checks |-> checks, send |-> send,
     quarter |-> quarter, raises |-> raises]

\* a run where the driver's cycle is not followed
NoMainInput ==
    MainInput(TRUE, [t \in Tickers |-> PassOf(Bars(0, 60), TRUE)], <<NoCheck>>,
              AllSent, TRUE, "none")

BuyThenSell ==
    [t \in Tickers |->
        IF t = Ticker("BTC") THEN PassOf(Bars(1, 60), TRUE)
        ELSE PassOf(Bars(-1, 60), TRUE)]

BothRise == <<CheckOf(1, 1, 100, TRUE), CheckOf(1, 1, 110, TRUE)>>

\* the runs that are followed: every pair of passes, every sequence of risk
\* checks, every pair of send outcomes with the notifier on and off and the
\* cycle inside and outside a quarter of an hour, and every raising block
MainInputs ==
    {MainInput(TRUE, passes, BothRise, AllSent, TRUE, "none") :
        passes \in [Tickers -> MainPasses]} \cup
    {MainInput(TRUE, BuyThenSell, checks, AllSent, TRUE, "none") :
        checks \in MainChecks} \cup
    {MainInput(enabled, BuyThenSell, BothRise, send, quarter, "none") :
        enabled \in BOOLEAN, send \in SendLists, quarter \in BOOLEAN} \cup
    {MainInput(TRUE, BuyThenSell, BothRise, send, TRUE, raises) :
        send \in SendLists, raises \in RaisingBlocks}

\* the risk check of the cycle in flight
CheckNow == main_in.checks[Min(started, Len(main_in.checks))]

\* where the main thread was when the first signal arrived, with the number
\* of notifier calls its cycle had made
NotSignalled ==
    [seen |-> FALSE, main_pc |-> "", phase |-> "", started |-> 0, notified |-> 0]

\* lines 27 and 181: the flag is set and the first cycle is about to start
InitMain(inputs) ==
    /\ main_in \in inputs
    /\ notifier_enabled = main_in.enabled
    /\ cycle_trades = <<>>
    /\ risk_actions = <<>>
    /\ notices = <<>>
    /\ running = TRUE
    /\ main_pc = "first_cycle"
    /\ phase = "idle"
    /\ started = 0
    /\ completed = 0
    /\ passed = {}
    /\ signalled = NotSignalled

\* a handler that ends the program where it is, as the interpreter's own
\* handler of an interrupt does
signal_handler_default ==
    /\ main_pc # "exited"
    /\ running' = FALSE
    /\ main_pc' = "exited"
    /\ phase' = "idle"
    /\ signalled' = IF signalled.seen THEN signalled
                    ELSE [seen |-> TRUE, main_pc |-> main_pc, phase |-> phase,
                          started |-> started, notified |-> Len(notices)]
    /\ UNCHANGED <<started, completed, passed, notify_vars>>
    /\ UNCHANGED <<risk_vars, trade_vars, cycle_vars, fuse_vars, rebal_vars>>

\* lines 31-37: signal_handler, registered for SIGINT and SIGTERM
signal_handler ==
    /\ main_pc # "exited"
    /\ running' = FALSE
    /\ signalled' = IF signalled.seen THEN signalled
                    ELSE [seen |-> TRUE, main_pc |-> main_pc, phase |-> phase,
                          started |-> started, notified |-> Len(notices)]
    /\ UNCHANGED <<main_pc, phase, started, completed, passed, notify_vars>>
    /\ UNCHANGED <<risk_vars, trade_vars, cycle_vars, fuse_vars, rebal_vars>>

\* the call of run_trading_cycle at line 181, or by the scheduler
StartCycle ==
    /\ phase' = "strategy"
    /\ started' = started + 1
    /\ passed' = {}
    /\ cycle_trades' = <<>>
    /\ risk_actions' = <<>>
    /\ notices' = <<>>
    /\ UNCHANGED <<notifier_enabled, main_in>>

\* line 181
FirstCycle ==
    /\ main_pc = "first_cycle"
    /\ phase = "idle"
    /\ StartCycle
    /\ UNCHANGED <<running, main_pc, completed, signalled>>
    /\ UNCHANGED <<risk_vars, trade_vars, cycle_vars, fuse_vars, rebal_vars>>

\* run_trading_cycle returns to its caller: line 181 is followed by the test
\* of the loop, schedule.run_pending() by the sleep
ReturnFromCycle ==
    /\ phase' = "idle"
    /\ completed' = completed + 1
    /\ main_pc' = IF main_pc = "first_cycle" THEN "loop_test" ELSE "sleep"

\* a block ends without raising and the cycle goes on with the next block
NextBlock ==
    /\ phase' = Phases[PhaseIndex(phase) + 1]
    /\ passed' = passed \cup {phase}
    /\ UNCHANGED <<main_pc, completed>>

\* a block raises: the cycle goes to its except clause at line 117
BlockRaises ==
    /\ phase' = "error"
    /\ UNCHANGED <<main_pc, completed, passed>>

\* lines 71-77: strategy.run_trading_cycle is called and starts its loop, or
\* the block raises before it
StrategyBegin(raises) ==
    /\ phase = "strategy"
    /\ cyc_pc \in {"idle", "returned"}
    /\ IF raises
       THEN /\ BlockRaises
            /\ UNCHANGED <<running, started, signalled, notify_vars>>
            /\ UNCHANGED <<risk_vars, trade_vars, cycle_vars, fuse_vars,
                           rebal_vars>>
       ELSE CycleBegin

\* line 77, inside the call: one pass of the strategy's loop, up to its
\* time.sleep(0.5)
StrategyVisit ==
    /\ phase = "strategy"
    /\ cyc_pc = "running"
    /\ ~CycleDone(cyc_index, markets)
    /\ LET pass == main_in.passes[markets[cyc_index]]
           signal_info == get_signal(pass.data)
       IN  IF GateHolds(signal_info.signal, signal_info.confidence)
           THEN CycleVisit(pass.data, Absent, Absent, Absent, TRUE)
           ELSE CycleVisit(pass.data, Present(100), Present(20000),
                           Present(10), pass.order_ok)

\* line 77, inside the call: the time.sleep(0.5) of the pass returns or
\* raises
StrategyWait ==
    /\ phase = "strategy"
    /\ cyc_pc = "waiting"
    /\ CycleWait(main_in.passes[markets[cyc_index]].raised)

\* line 77: the call returns and cycle_result is assigned
StrategyReturn ==
    /\ phase = "strategy"
    /\ ReturnTrades
    /\ NextBlock
    /\ cycle_trades' = TradesOf(visits)
    /\ UNCHANGED <<running, started, signalled, notifier_enabled, main_in,
                   risk_actions, notices>>

\* line 77: strategy.run_trading_cycle(markets, interval)
StrategyPass ==
    \/ StrategyBegin(main_in.raises = "strategy")
    \/ StrategyVisit
    \/ StrategyWait
    \/ StrategyReturn

\* lines 80-89: notify_trade for the next trade that is not a hold; a call
\* that raises takes the cycle to its except clause
NotifyTrade(outcomes) ==
    /\ phase = "notify_trades"
    /\ Notified("trade") < Len(NotHold(cycle_trades))
    /\ LET sent == notify("trade", notifier_enabled,
                          outcomes[Notified("trade") + 1])
       IN  /\ notices' = Append(notices, sent)
           /\ IF sent.result = "raise" THEN BlockRaises
              ELSE UNCHANGED <<main_pc, phase, completed, passed>>
    /\ UNCHANGED <<running, started, signalled, notifier_enabled, main_in,
                   cycle_trades, risk_actions>>
    /\ UNCHANGED <<risk_vars, trade_vars, cycle_vars, fuse_vars, rebal_vars>>

\* line 80: the loop over the trades is exhausted
TradesNotified ==
    /\ phase = "notify_trades"
    /\ Notified("trade") = Len(NotHold(cycle_trades))
    /\ NextBlock
    /\ UNCHANGED <<running, started, signalled, notify_vars>>
    /\ UNCHANGED <<risk_vars, trade_vars, cycle_vars, fuse_vars, rebal_vars>>

\* lines 80-89: the loop over the trades of the cycle
NotifyTrades(outcomes) == NotifyTrade(outcomes) \/ TradesNotified

\* line 92: risk_manager.check_risk_limits is called and refreshes the
\* ledger, or the block raises before it
RiskCheckBegin(raises, balances, price) ==
    /\ phase = "risk"
    /\ pc = "idle"
    /\ IF raises
       THEN /\ BlockRaises
            /\ UNCHANGED <<running, started, signalled, notify_vars>>
            /\ UNCHANGED <<risk_vars, trade_vars, cycle_vars, fuse_vars,
                           rebal_vars>>
       ELSE RiskBegin(balances, price)

\* line 92, inside the call: one position is evaluated
RiskCheckStep ==
    /\ phase = "risk"
    /\ RiskHold \/ RiskExecute(CheckNow.order_ok)

\* line 92: the call returns and risk_actions is assigned
RiskCheckReturn ==
    /\ phase = "risk"
    /\ ReturnActions \/ ReturnNoActions
    /\ NextBlock
    /\ risk_actions' = RiskActionsOf(steps, risk_result')
    /\ UNCHANGED <<running, started, signalled, notifier_enabled, main_in,
                   cycle_trades, notices>>

\* line 92: risk_manager.check_risk_limits()
RiskCheck ==
    \/ RiskCheckBegin(main_in.raises = "risk", CheckNow.balances, CheckNow.price)
    \/ RiskCheckStep
    \/ RiskCheckReturn

\* lines 95-100: notify_risk_action for the next action that is not a hold
NotifyRiskAction(outcomes) ==
    /\ phase = "notify_risk"
    /\ Notified("risk_action") < Len(NotHold(risk_actions))
    /\ LET sent == notify("risk_action", notifier_enabled,
                          outcomes[Notified("risk_action") + 1])
       IN  /\ notices' = Append(notices, sent)
           /\ IF sent.result = "raise" THEN BlockRaises
              ELSE UNCHANGED <<main_pc, phase, completed, passed>>
    /\ UNCHANGED <<running, started, signalled, notifier_enabled, main_in,
                   cycle_trades, risk_actions>>
    /\ UNCHANGED <<risk_vars, trade_vars, cycle_vars, fuse_vars, rebal_vars>>

\* lines 95-104: the loop over the risk actions is exhausted; quarter is
\* "current_minute % 15 == 0"
RiskActionsNotified(quarter) ==
    /\ phase = "notify_risk"
    /\ Notified("risk_action") = Len(NotHold(risk_actions))
    /\ IF quarter THEN NextBlock
       ELSE ReturnFromCycle /\ passed' = passed \cup {phase}
    /\ UNCHANGED <<running, started, signalled, notify_vars>>
    /\ UNCHANGED <<risk_vars, trade_vars, cycle_vars, fuse_vars, rebal_vars>>

\* lines 95-104: the loop over the risk actions of the cycle
NotifyRisk(outcomes, quarter) ==
    NotifyRiskAction(outcomes) \/ RiskActionsNotified(quarter)

\* lines 105-115: check_portfolio_risk and notify_portfolio
PortfolioReport(raises, outcome) ==
    /\ phase = "portfolio"
    /\ LET sent == notify("portfolio", notifier_enabled, outcome)
       IN  IF raises
           THEN BlockRaises /\ UNCHANGED notices
           ELSE /\ notices' = Append(notices, sent)
                /\ IF sent.result = "raise" THEN BlockRaises
                   ELSE ReturnFromCycle /\ passed' = passed \cup {phase}
    /\ UNCHANGED <<running, started, signalled, notifier_enabled, main_in,
                   cycle_trades, risk_actions>>
    /\ UNCHANGED <<risk_vars, trade_vars, cycle_vars, fuse_vars, rebal_vars>>

\* lines 117-119: the except clause reports the error and the cycle returns;
\* an exception of notify_error would leave main()
CycleError(outcome) ==
    /\ phase = "error"
    /\ LET sent == notify_error(notifier_enabled, outcome)
       IN  /\ notices' = Append(notices, sent)
           /\ IF sent.result = "raise"
              THEN /\ phase' = "idle"
                   /\ main_pc' = "exited"
                   /\ UNCHANGED <<completed, passed>>
              ELSE ReturnFromCycle /\ passed' = passed \cup {"error"}
    /\ UNCHANGED <<running, started, signalled, notifier_enabled, main_in,
                   cycle_trades, risk_actions>>
    /\ UNCHANGED <<risk_vars, trade_vars, cycle_vars, fuse_vars, rebal_vars>>

\* a variant whose loop never reads the flag
LoopTest_unconditional ==
    /\ main_pc = "loop_test"
    /\ main_pc' = "run_pending"
    /\ UNCHANGED <<running, phase, started, completed, passed, signalled,
                   notify_vars>>
    /\ UNCHANGED <<risk_vars, trade_vars, cycle_vars, fuse_vars, rebal_vars>>

\* line 186: while running
LoopTest ==
    /\ main_pc = "loop_test"
    /\ main_pc' = IF running THEN "run_pending" ELSE "exited"
    /\ UNCHANGED <<running, phase, started, completed, passed, signalled,
                   notify_vars>>
    /\ UNCHANGED <<risk_vars, trade_vars, cycle_vars, fuse_vars, rebal_vars>>

\* a scheduler that starts a due cycle without waiting for the one in flight
RunPending_threaded(due) ==
    /\ main_pc # "exited"
    /\ due /\ started < MaxCycles
    /\ StartCycle
    /\ UNCHANGED main_pc
    /\ UNCHANGED <<running, completed, signalled>>
    /\ UNCHANGED <<risk_vars, trade_vars, cycle_vars, fuse_vars, rebal_vars>>

\* line 187: schedule.run_pending() runs the cycle if it is due
RunPending(due) ==
    /\ main_pc = "run_pending"
    /\ phase = "idle"
    /\ IF due /\ started < MaxCycles
       THEN /\ StartCycle
            /\ UNCHANGED main_pc
       ELSE /\ main_pc' = "sleep"
            /\ UNCHANGED <<phase, started, passed, notify_vars>>
    /\ UNCHANGED <<running, completed, signalled>>
    /\ UNCHANGED <<risk_vars, trade_vars, cycle_vars, fuse_vars, rebal_vars>>

\* line 188: time.sleep(1)
Sleep ==
    /\ main_pc = "sleep"
    /\ main_pc' = "loop_test"
    /\ UNCHANGED <<running, phase, started, completed, passed, signalled,
                   notify_vars>>
    /\ UNCHANGED <<risk_vars, trade_vars, cycle_vars, fuse_vars, rebal_vars>>

\* the steps of the main thread
MainStep ==
    \/ FirstCycle
    \/ StrategyPass
    \/ NotifyTrades(main_in.send)
    \/ RiskCheck
    \/ NotifyRisk(main_in.send, main_in.quarter)
    \/ PortfolioReport(main_in.raises = "portfolio", main_in.send[1])
    \/ CycleError(main_in.send[1])
    \/ LoopTest
    \/ \E due \in BOOLEAN : RunPending(due)
    \/ Sleep

NextMain == MainStep \/ signal_handler

InitExt ==
    /\ InitCycle(DefaultMarkets)
    /\ InitFuse({NoFrame})
    /\ InitRebalance({NoRebalance})
    /\ InitMain({NoMainInput})

\* the strategy controller alone: the risk engine stays as constructed
InitStrategy == InitRisk({TRUE}) /\ InitTrade(TradingConfigs) /\ InitExt

\* the first risk check of a run: one BTC is held at price 100
FirstBalances ==
    [absent |-> FALSE,
     list |-> <<BalanceRecord("KRW", 1), BalanceRecord("BTC", 1),
                BalanceRecord("ETH", 0)>>]

FirstPrices == [t \in Tickers |-> IF t = Ticker("BTC") THEN 100 ELSE NoPrice]

\* the risk engine after that first check: the ledger holds the BTC position
RiskAfterFirstCheck ==
    LET u == update_positions(EmptyMap, <<>>, FirstBalances, FirstPrices, TRUE)
        ticker == Ticker("BTC")
        position == u.positions[ticker]
        risk_action == _check_position_risk(position, TRUE)
        result == Result(FALSE, FALSE, risk_action.action, risk_action.reason)
    IN  /\ use_trailing_stop = TRUE
        /\ positions = u.positions
        /\ pos_order = u.order
        /\ pc = "idle"
        /\ it_index = 2
        /\ it_used = 1
        /\ actions = Put(EmptyMap, ticker, result)
        /\ risk_result = Put(EmptyMap, ticker, result)
        /\ notified = {}
        /\ steps = <<StepRecord(ticker, position, risk_action, FALSE, 0, FALSE,
                                result)>>
        /\ refreshed = {ticker}
        /\ held = {ticker}
        /\ queried = Queried(FirstBalances, FirstPrices)
        /\ created = DOMAIN u.positions
        /\ exited = EmptyMap
        /\ trailed = LastStops(EmptyMap, u.positions, FirstBalances)

\* strategy cycles, started with an empty ledger or with a held position
InitStrategyCycle ==
    /\ InitRisk({TRUE}) \/ RiskAfterFirstCheck
    /\ InitTrade(DefaultTrading)
    /\ InitCycle(MarketLists)
    /\ InitFuse({NoFrame})
    /\ InitRebalance({NoRebalance})
    /\ InitMain({NoMainInput})

SpecCycle == InitStrategyCycle /\ [][NextCycle]_vars

\* the fuser alone, applied to every frame
InitFuser ==
    /\ InitRisk({TRUE})
    /\ InitTrade(DefaultTrading)
    /\ InitCycle(DefaultMarkets)
    /\ InitFuse(SignalFrames \cup ConfidenceFrames \cup IndicatorFrames)
    /\ InitRebalance({NoRebalance})
    /\ InitMain({NoMainInput})

SpecFuse == InitFuser /\ [][NextFuse]_vars

\* the call of rebalance_portfolio, and a termination signal at any time
NextRebalance == RebalanceSells \/ RebalanceBuys \/ signal_handler

InitRebalancer ==
    /\ InitRisk({TRUE})
    /\ InitTrade(DefaultTrading)
    /\ InitCycle(DefaultMarkets)
    /\ InitFuse({NoFrame})
    /\ InitRebalance(RebalanceInputs)
    /\ InitMain({NoMainInput})

SpecRebalance == InitRebalancer /\ [][NextRebalance]_vars

InitMainLoop ==
    /\ InitRisk({TRUE})
    /\ InitTrade(DefaultTrading)
    /\ InitCycle(DefaultMarkets)
    /\ InitFuse({NoFrame})
    /\ InitRebalance({NoRebalance})
    /\ InitMain(MainInputs)

\* the main thread goes on as long as it has a step to take: every call a
\* cycle makes returns
SpecMain == InitMainLoop /\ [][NextMain]_vars /\ WF_vars(MainStep)

SpecTrade == InitStrategy /\ [][NextTrade]_vars

\* the risk engine alone; trading.markets names one of the two coins
RiskMarkets == {<<Ticker("BTC")>>}

Init ==
    /\ InitRisk(BOOLEAN)
    /\ InitTrade(DefaultTrading)
    /\ InitCycle(RiskMarkets)
    /\ InitFuse({NoFrame})
    /\ InitRebalance({NoRebalance})
    /\ InitMain({NoMainInput})

Next ==
    \/ \E balances \in BalanceResponses, price \in PriceResponses :
           RiskBegin(balances, price)
    \/ RiskHold
    \/ \E order_ok \in BOOLEAN : RiskExecute(order_ok)
    \/ RiskReturn
    \/ RiskRaise

Spec == Init /\ [][Next]_vars

(***************************************************************************)
(* The risk engine, the strategy controller and the portfolio functions    *)
(* on one ledger: the calls follow each other as the one thread of the     *)
(* program can order them.  One coin is traded and held.                   *)
(***************************************************************************)
\* get_balance(): ETH is not held
LedgerBalances == {b \in BalanceResponses : Ticker("ETH") \notin HeldIn(b)}

\* get_current_price(): BTC at its first price, above take_profit, or absent
LedgerPrices == {p \in PriceResponses : p[Ticker("BTC")] \in {NoPrice, 100, 110}}

\* the call of rebalance_portfolio: BTC is above its target and is sold
LedgerRebalances ==
    {RebalanceInput(<<Target("KRW-BTC", 20), Target("KRW", 50), Target("KRW-ETH", 30)>>,
                    Present(0), [absent |-> FALSE,
                                 list |-> <<[currency |-> "KRW", balance |-> 1],
                                            [currency |-> "BTC", balance |-> 3],
                                            [currency |-> "ETH", balance |-> 0]>>],
                    [t \in Tickers |-> 10000], [t \in Tickers |-> TRUE],
                    [t \in Tickers |-> TRUE], Present(60000))}

InitLedger ==
    /\ InitRisk({TRUE})
    /\ InitTrade(DefaultTrading)
    /\ InitCycle(RiskMarkets)
    /\ InitFuse({NoFrame})
    /\ InitRebalance(LedgerRebalances)
    /\ InitMain({NoMainInput})

NextLedger ==
    \/ \E balances \in LedgerBalances, price \in LedgerPrices :
           /\ cyc_pc \in {"idle", "returned"}
           /\ ~rebal_out.waiting
           /\ RiskBegin(balances, price)
    \/ RiskHold
    \/ \E order_ok \in BOOLEAN : RiskExecute(order_ok)
    \/ RiskReturn
    \/ RiskRaise
    \/ pc = "idle" /\ ~rebal_out.waiting /\ CycleBegin
    \/ LedgerVisit
    \/ NextWait
    \/ CycleReturn
    \/ pc = "idle" /\ cyc_pc \in {"idle", "returned"} /\ RebalanceSells
    \/ RebalanceBuys

SpecLedger == InitLedger /\ [][NextLedger]_vars

(***************************************************************************)
(* Properties of the risk engine                                           *)
(***************************************************************************)
\* the positions evaluated so far in the current call of check_risk_limits
Evaluated == {steps[i] : i \in DOMAIN steps}

\* C1: whenever the stop-loss condition holds for an evaluated position, the
\* decision is a sell of the whole quantity with reason 'stop_loss', whatever
\* the trailing-stop and take-profit conditions are.
C1_StopLossFirst ==
    \A e \in Evaluated :
        StopLossHit(e.position) =>
            /\ e.risk_action = RiskAction("sell", "stop_loss")
            /\ e.ordered
            /\ e.volume = e.position.quantity

\* a position for which the stop-loss and the trailing-stop condition both
\* hold has been evaluated
C1_Witness ==
    \E e \in Evaluated :
        /\ StopLossHit(e.position)
        /\ TrailingStopHit(e.position, use_trailing_stop)
        /\ e.risk_action.reason = "stop_loss"

\* C2: when the stop-loss condition does not hold and the trailing stop is
\* enabled, set and reached, the decision is a sell of the whole quantity with
\* reason 'trailing_stop', also when the take-profit condition holds; the
\* take-profit partial exit is decided only when neither earlier rule matches.
C2_TrailingStopSecond ==
    \A e \in Evaluated :
        /\ (~StopLossHit(e.position) /\ TrailingStopHit(e.position, use_trailing_stop))
               => /\ e.risk_action = RiskAction("sell", "trailing_stop")
                  /\ e.ordered
                  /\ e.volume = e.position.quantity
        /\ e.risk_action.reason = "take_profit"
               => /\ ~StopLossHit(e.position)
                  /\ ~TrailingStopHit(e.position, use_trailing_stop)
                  /\ TakeProfitHit(e.position)

\* scenario A: entry 100, highest 110, stop 107.8, price 105: the position is
\* in profit by 5 % (take-profit holds) and is fully exited by its trailing stop
C2_Witness ==
    \E e \in Evaluated :
        /\ e.position.entry_price = 100
        /\ e.position.highest_price = 110
        /\ e.position.current_price = 105
        /\ e.position.trailing_stop_price = 10780
        /\ TakeProfitHit(e.position)
        /\ e.risk_action = RiskAction("sell", "trailing_stop")
        /\ e.volume = e.position.quantity

\* C3: for an instrument whose balance is > 0 in every refresh, the trailing
\* stop the ledger records is never below the one it recorded last, whatever
\* the prices were in between.
C3_TrailingStopNeverDecreases ==
    [][\A t \in (DOMAIN trailed) \cap (DOMAIN trailed') :
           trailed'[t] >= trailed[t]]_vars

\* the part of C3 that the code keeps: an entry that is in the ledger before
\* and after a step keeps a trailing stop that is at least the one it had
C3_StopOfKeptEntry ==
    [][\A t \in (DOMAIN positions) \cap (DOMAIN positions') :
           positions[t].has_trailing_stop =>
               /\ positions'[t].has_trailing_stop
               /\ positions'[t].trailing_stop_price >= positions[t].trailing_stop_price]_vars

\* an instrument that is held and has no entry, its price query having given
\* nothing, with the stop its dropped entry had
C3_Dropped ==
    \E t \in held \cap DOMAIN trailed :
        /\ pc = "iterating"
        /\ t \notin DOMAIN positions
        /\ trailed[t] = StopPriceOf(110)

\* C4: a full exit submits one market sell for the whole quantity; if the
\* order succeeds the entry is removed from the ledger and the result is a
\* successful 'sell', and if the order is absent the entry is as it was and
\* the result has success = false and action 'hold'.
C4_FullExit ==
    \A e \in Evaluated :
        e.risk_action.action = "sell" =>
            /\ e.ordered
            /\ e.volume = e.position.quantity
            /\ Cardinality({i \in DOMAIN steps :
                   steps[i].ticker = e.ticker /\ steps[i].ordered}) = 1
            /\ e.order_ok =>
                   /\ e.ticker \notin DOMAIN positions
                   /\ e.result = Result(TRUE, TRUE, "sell", e.risk_action.reason)
            /\ ~e.order_ok =>
                   /\ e.ticker \in DOMAIN positions
                   /\ positions[e.ticker] = e.position
                   /\ e.result = Result(TRUE, FALSE, "hold", e.risk_action.reason)

\* one call in which a full exit failed and another full exit succeeded
C4_Witness ==
    \E e1, e2 \in Evaluated :
        /\ e1.risk_action.action = "sell" /\ ~e1.order_ok
        /\ e1.ticker \in DOMAIN positions
        /\ e2.risk_action.action = "sell" /\ e2.order_ok
        /\ e2.ticker \notin DOMAIN positions

\* C5: when the take-profit condition holds and neither the stop-loss nor the
\* trailing stop triggers, a market sell for half of the quantity is submitted;
\* on success the entry stays in the ledger with its quantity reduced by the
\* sold volume and every other field unchanged, on failure it is unchanged.
C5_PartialExit ==
    \A e \in Evaluated :
        (/\ TakeProfitHit(e.position)
         /\ ~StopLossHit(e.position)
         /\ ~TrailingStopHit(e.position, use_trailing_stop)) =>
            /\ e.risk_action = RiskAction("partial_sell", "take_profit")
            /\ e.ordered
            /\ e.volume * sell_ratio_den = e.position.quantity
            /\ e.ticker \in DOMAIN positions
            /\ e.order_ok =>
                   /\ positions[e.ticker] =
                          [e.position EXCEPT !.quantity = e.position.quantity - e.volume]
                   /\ positions[e.ticker].quantity * sell_ratio_den = e.position.quantity
                   /\ e.result = Result(TRUE, TRUE, "partial_sell", "take_profit")
            /\ ~e.order_ok =>
                   /\ positions[e.ticker] = e.position
                   /\ e.result = Result(TRUE, FALSE, "hold", "take_profit")

\* scenario D: one call in which a take-profit exit halved a quantity and
\* another take-profit exit failed
C5_Witness ==
    \E e1, e2 \in Evaluated :
        /\ e1.risk_action.reason = "take_profit" /\ e1.order_ok
        /\ positions[e1.ticker].quantity > 0
        /\ positions[e1.ticker].quantity * sell_ratio_den = e1.position.quantity
        /\ e2.risk_action.reason = "take_profit" /\ ~e2.order_ok
        /\ positions[e2.ticker] = e2.position

\* C6: when check_risk_limits has returned, every position that was in the
\* ledger after the refresh has been evaluated and has an entry in the
\* returned map.
C6_EveryPositionGetsAnAction ==
    pc = "idle" =>
        \A t \in refreshed :
            /\ t \in {e.ticker : e \in Evaluated}
            /\ t \in DOMAIN risk_result

\* C7: when check_risk_limits has returned, every exit whose order succeeded
\* is in the returned map with success = true, the executed action and its
\* reason, and the driver has passed it to the notifier.
C7_SuccessfulExitIsReported ==
    pc = "idle" =>
        \A e \in Evaluated :
            (e.ordered /\ e.order_ok) =>
                /\ e.ticker \in DOMAIN risk_result
                /\ risk_result[e.ticker] =
                       Result(TRUE, TRUE, e.risk_action.action, e.risk_action.reason)
                /\ e.ticker \in notified

\* the step is the refresh that starts a call of check_risk_limits
IsRefresh == pc = "idle" /\ pc' = "iterating"

\* the step is a successful full exit of t
IsFullExitOf(t) ==
    /\ pc = "iterating"
    /\ Len(steps') = Len(steps) + 1
    /\ LET e == steps'[Len(steps')]
       IN  e.ticker = t /\ e.risk_action.action = "sell" /\ e.order_ok

\* C8: an entry of the ledger is kept, with its entry price, extrema and
\* trailing stop carried over, by every refresh that sees a balance > 0 for
\* its instrument, and it leaves the ledger only by a refresh that does not
\* see a balance > 0 or by a successful full exit.
C8_EntryKeptWhileHeld ==
    [][\A t \in DOMAIN positions :
           /\ (IsRefresh /\ t \in held') =>
                  /\ t \in DOMAIN positions'
                  /\ positions'[t].entry_price = positions[t].entry_price
                  /\ positions'[t].highest_price =
                         Max(positions[t].highest_price, positions'[t].current_price)
                  /\ positions'[t].lowest_price =
                         Min(positions[t].lowest_price, positions'[t].current_price)
                  /\ positions'[t].trailing_stop_price
                         >= positions[t].trailing_stop_price
           /\ t \notin DOMAIN positions' =>
                  \/ IsRefresh /\ t \notin held'
                  \/ IsFullExitOf(t)]_vars

\* an entry as update_positions creates it from one observed price
Fresh(position) ==
    /\ position.entry_price = position.current_price
    /\ position.highest_price = position.current_price
    /\ position.lowest_price = position.current_price
    /\ position.has_trailing_stop = use_trailing_stop
    /\ position.trailing_stop_price =
           IF use_trailing_stop THEN StopPriceOf(position.current_price) ELSE 0

\* C9: an instrument that was removed from the ledger by a successful full
\* exit and is in the ledger again has a fresh entry: entry price, highest and
\* lowest price are the price of the refresh that created it and the trailing
\* stop is computed from that price.
C9_FreshAfterExit ==
    \A t \in (DOMAIN exited) \cap (DOMAIN positions) : Fresh(positions[t])

\* an instrument is in the ledger again after a full exit, and its entry
\* price, extrema and trailing stop all differ from those of the removed entry
C9_Witness ==
    \E t \in (DOMAIN exited) \cap (DOMAIN positions) :
        /\ positions[t].entry_price # exited[t].entry_price
        /\ positions[t].highest_price # exited[t].highest_price
        /\ positions[t].lowest_price # exited[t].lowest_price
        /\ positions[t].has_trailing_stop
        /\ positions[t].trailing_stop_price # exited[t].trailing_stop_price

(***************************************************************************)
(* Properties of the strategy controller                                   *)
(***************************************************************************)
\* the last call of execute_trade called an order collaborator
OrderSubmitted ==
    \E i \in DOMAIN trade.result.calls :
        trade.result.calls[i] \in {"buy_market_order", "sell_market_order"}

\* C10: execute_trade submits an order only if the signal is +1 or -1 and the
\* confidence is at least 0.6; for signal 0 or a confidence below 0.6 it
\* returns a successful 'hold' and calls no collaborator.
C10_OrderGate ==
    trade.called =>
        /\ OrderSubmitted => (trade.signal \in {-1, 1} /\ trade.confidence >= 60)
        /\ (trade.signal = 0 \/ trade.confidence < 60) =>
               /\ trade.result.success
               /\ trade.result.action = "hold"
               /\ trade.result.calls = <<>>
               /\ ~trade.result.stored

\* a buy signal with confidence 0.59 was held back without any collaborator
\* call, while the order table shows that an order went through the gate before
C10_Witness ==
    /\ trade.called
    /\ trade.signal = 1
    /\ trade.confidence = 59
    /\ trade.result.action = "hold"
    /\ trade.result.calls = <<>>
    /\ Len(orders) > 0

\* the last call of execute_trade passed the gate and got its three queries
\* answered
Decided(signal) ==
    /\ trade.called
    /\ trade.signal = signal
    /\ trade.confidence >= 60
    /\ ~trade.price.absent /\ ~trade.krw.absent /\ ~trade.coin.absent

\* how often the last call of execute_trade called the collaborator
CallCount(name) ==
    Cardinality({i \in DOMAIN trade.result.calls : trade.result.calls[i] = name})

\* the value of a float times 2^64, a natural number for every float of the
\* model
FloatScaled(a) == BigShl(a.m, a.e + 64)

\* a <= n / d + total * 2^-52 in exact arithmetic, for a float a and machine
\* integers n, d and total; total = 0 leaves no slack
FloatAtMost(a, n, d, total) ==
    BigCmp(BigMul(FloatScaled(a), BigOfInt(d)),
           BigAdd(BigShl(BigOfInt(n), 64), BigShl(BigOfInt(d * total), 12))) <= 0

\* a >= n / d - total * 2^-52
FloatAtLeast(a, n, d, total) ==
    BigCmp(BigAdd(BigMul(FloatScaled(a), BigOfInt(d)),
                  BigShl(BigOfInt(d * total), 12)),
           BigShl(BigOfInt(n), 64)) >= 0

\* a = n / d
FloatIs(a, n, d) == FloatAtMost(a, n, d, 0) /\ FloatAtLeast(a, n, d, 0)

C11_WitnessMinimum ==
    /\ Decided(1)
    /\ trade.krw.value = 19000 /\ trade.coin.value = 10
    /\ trading.max_invest_ratio = 30
    /\ trade.result.order.type = "buy"
    /\ FloatIs(trade.result.order.amount, MinimumOrder, 1)
    /\ CallCount("buy_market_order") = 1

\* 30 % of the total 50000 with 10000 held is a notional of 5000 too; the
\* program computes 4999.999999999999 and holds
C11_WitnessRounding ==
    /\ Decided(1)
    /\ trade.krw.value = 40000 /\ trade.coin.value = 100
    /\ trading.max_invest_ratio = 30
    /\ trade.result.action = "hold" /\ trade.result.success
    /\ ~OrderSubmitted

\* C12: on a gated sell signal, execute_trade submits no order when the held
\* quantity is 0 and otherwise one market sell whose volume is the whole held
\* quantity.
C12_SellAll ==
    Decided(-1) =>
        IF trade.coin.value = 0
        THEN /\ ~OrderSubmitted
             /\ trade.result.success /\ trade.result.action = "hold"
        ELSE /\ CallCount("sell_market_order") = 1
             /\ CallCount("buy_market_order") = 0
             /\ trade.result.order =
                    Order("sell", trade.ticker, trade.price.value,
                          FloatOfInt(trade.coin.value))

\* a market sell of all 270 held coins was submitted
C12_Witness ==
    /\ Decided(-1)
    /\ trade.coin.value = 270
    /\ trade.result.action = "sell"
    /\ FloatIs(trade.result.order.amount, 270, 1)

(***************************************************************************)
(* Properties of the strategy cycle                                        *)
(***************************************************************************)
Visited == {visits[i] : i \in DOMAIN visits}

\* the pass called the collaborator: the calls of its execute_trade, whatever
\* entry the pass stored
Called(v, name) == \E i \in DOMAIN v.executed.calls : v.executed.calls[i] = name

Ordered(v) == Called(v, "buy_market_order") \/ Called(v, "sell_market_order")

\* the orders that the pass submitted
OrdersOf(v) ==
    Cardinality({i \in DOMAIN v.executed.calls :
                    v.executed.calls[i] \in {"buy_market_order",
                                             "sell_market_order"}})

FailedHold(entry) ==
    /\ ~entry.trade_result.success
    /\ entry.trade_result.action = "hold"

\* the passes so far whose market is the given one
PassesOf(ticker) == {i \in DOMAIN visits : visits[i].ticker = ticker}

\* C13 as stated: when the buy or sell order of a market comes back absent,
\* the result for the market has success = false and action 'hold', the
\* order table has no new entry, the position ledger is as it was, and that
\* order is the only one submitted for the market in the cycle.
C13_NoFurtherOrder ==
    \A v \in Visited :
        (Ordered(v) /\ ~v.order_ok) =>
            /\ FailedHold(v.entry)
            /\ ~v.executed.stored
            /\ v.orders_after = v.orders_before
            /\ v.ledger_after = v.ledger_before
            /\ Cardinality({i \in PassesOf(v.ticker) : Ordered(visits[i])}) = 1

\* C13: when the buy or sell order of a market comes back absent, the result
\* for the market has success = false and action 'hold', the order table has
\* no new entry, the position ledger is as it was, and that order is the only
\* one of its call of execute_trade; the cycle calls execute_trade once for
\* every entry of the market list, so the market gets another order in the
\* cycle only from another entry of the list that names it.
C13_RejectedOrder ==
    /\ \A v \in Visited :
           (Ordered(v) /\ ~v.order_ok) =>
               /\ FailedHold(v.entry)
               /\ ~v.executed.stored
               /\ v.orders_after = v.orders_before
               /\ v.ledger_after = v.ledger_before
               /\ OrdersOf(v) = 1
               /\ Len(v.executed.calls) = 4
    /\ \A i \in DOMAIN visits :
           /\ visits[i].ticker = markets[i]
           /\ OrdersOf(visits[i]) <= 1
    /\ Len(visits) <= Len(markets)

\* a cycle over two markets with a held position in the ledger: the order of
\* the first market was rejected, the order of the second one went through
C13_Witness ==
    /\ cyc_pc = "returned"
    /\ Len(visits) = 2
    /\ visits[1].ticker # visits[2].ticker
    /\ Ordered(visits[1]) /\ ~visits[1].order_ok
    /\ FailedHold(cycle_result[visits[1].ticker])
    /\ visits[1].ledger_after # EmptyMap
    /\ Ordered(visits[2]) /\ visits[2].order_ok
    /\ visits[2].orders_after = visits[2].orders_before + 1

\* a cycle over a list that names one market twice: the order of the first
\* pass was rejected, and the second pass submitted an order for the same
\* market
C13_WitnessListedTwice ==
    /\ cyc_pc = "returned"
    /\ Len(visits) = 2
    /\ visits[1].ticker = visits[2].ticker
    /\ Ordered(visits[1]) /\ ~visits[1].order_ok
    /\ FailedHold(visits[1].entry)
    /\ Ordered(visits[2])

\* execute_trade raised: a buy is sized with total assets of 0 (line 240)
TradeRaised(v) ==
    /\ Called(v, "get_balance")
    /\ ~v.krw.absent /\ ~v.coin.absent
    /\ get_signal(v.data).signal > 0
    /\ v.krw.value + v.coin.value * v.price.value = 0

\* the except clause of the loop body wrote the entry, execute_trade raised,
\* or its price, balance or order call failed
FailedPass(v) ==
    \/ v.raised
    \/ TradeRaised(v)
    \/ Called(v, "get_current_price") /\ v.price.absent
    \/ Called(v, "get_balance") /\ (v.krw.absent \/ v.coin.absent)
    \/ Ordered(v) /\ ~v.order_ok

\* the candle query of the pass failed
NoCandles(v) == v.data.absent

\* the pass has no signal: the candle query gave nothing or an empty frame,
\* or update_market_data or get_signal raised on the bars
NoSignal(v) == v.data.absent \/ v.data.empty \/ v.data.raises # ""

\* C14 as stated: the cycle visits the configured markets once each, in list
\* order; a pass that meets an exception or any failing collaborator, the
\* candle query included, gives a failed 'hold' for its own market and for no
\* other, and the returned map has the entry of every configured market.
C14_AnyFailureIsAFailedHold ==
    /\ Len(visits) <= Len(markets)
    /\ \A i \in DOMAIN visits :
           /\ visits[i].ticker = markets[i]
           /\ (FailedPass(visits[i]) \/ NoSignal(visits[i]))
                  => FailedHold(visits[i].entry)
           /\ ~visits[i].entry.trade_result.success
                  => (FailedPass(visits[i]) \/ NoSignal(visits[i]))
    /\ cyc_pc = "returned" =>
           /\ Len(visits) = Len(markets)
           /\ DOMAIN cycle_result = {markets[i] : i \in DOMAIN markets}

\* C14, amended: the cycle makes one pass for every entry of the market
\* list, in list order.  A pass whose candle query gives nothing, or whose
\* update_market_data or get_signal raises, has signal 0 with confidence 0.0
\* and, unless its entry is written by the except clause, a successful
\* 'hold' without any collaborator call.  A pass gives a failed 'hold'
\* exactly if its price, balance or order call fails, execute_trade raises,
\* or the except clause of the loop body writes the entry; that clause is
\* reached after execute_trade and leaves the order of the pass in the order
\* table.  No pass touches the entry of another market, and the returned map
\* has one entry for every market of the list, that of its last pass.
C14_EveryMarketOnce ==
    /\ Len(visits) <= Len(markets)
    /\ \A i \in DOMAIN visits :
           /\ visits[i].ticker = markets[i]
           /\ FailedPass(visits[i]) <=> FailedHold(visits[i].entry)
           /\ visits[i].entry.trade_result.success <=> ~FailedPass(visits[i])
           /\ NoSignal(visits[i]) =>
                  /\ visits[i].entry.signal = 0
                  /\ visits[i].entry.confidence = 0
                  /\ visits[i].entry.trade_result.action = "hold"
                  /\ visits[i].entry.trade_result.success = ~visits[i].raised
                  /\ visits[i].executed.calls = <<>>
           /\ visits[i].raised =>
                  /\ visits[i].entry = RaisedEntry
                  /\ visits[i].orders_after = visits[i].orders_before
                         + (IF visits[i].executed.stored THEN 1 ELSE 0)
           /\ \A t \in DOMAIN results :
                  PassesOf(t) # {} /\
                  results[t] = visits[CHOOSE j \in PassesOf(t) :
                                          \A k \in PassesOf(t) : k <= j].entry
    /\ DOMAIN results = {visits[i].ticker : i \in DOMAIN visits}
    /\ cyc_pc = "returned" =>
           /\ Len(visits) = Len(markets)
           /\ cycle_result = results
           /\ DOMAIN cycle_result = {markets[i] : i \in DOMAIN markets}

\* a returned cycle over two markets: the except clause wrote the entry of
\* the first pass after its order was stored, the second pass bought
C14_Witness ==
    /\ cyc_pc = "returned"
    /\ Len(markets) = 2
    /\ visits[1].raised
    /\ FailedHold(cycle_result[markets[1]])
    /\ cycle_result[markets[2]].trade_result.action = "buy"
    /\ cycle_result[markets[2]].trade_result.success

\* a returned cycle whose first pass raised in get_signal and whose second
\* pass raised in update_market_data: both have a successful 'hold'
C14_WitnessSignalRaises ==
    /\ cyc_pc = "returned"
    /\ Len(visits) = 2
    /\ visits[1].data.raises = "get_signal" /\ ~visits[1].raised
    /\ visits[2].data.raises = "update_market_data" /\ ~visits[2].raised
    /\ \A i \in 1..2 :
           /\ cycle_result[markets[i]].signal = 0
           /\ cycle_result[markets[i]].trade_result.success
           /\ cycle_result[markets[i]].trade_result.action = "hold"

\* a pass whose except clause wrote a failed 'hold' after execute_trade had
\* sold, with the sell in the order table
C14_WitnessRaisedAfterOrder ==
    /\ Len(visits) > 0
    /\ visits[1].raised
    /\ visits[1].executed.action = "sell" /\ visits[1].executed.stored
    /\ FailedHold(visits[1].entry)
    /\ Len(orders) = visits[1].orders_before + 1

\* a pass whose execute_trade raised on total assets of 0
C14_WitnessTradeRaises ==
    /\ Len(visits) > 0
    /\ TradeRaised(visits[1]) /\ ~visits[1].raised
    /\ FailedHold(visits[1].entry)
    /\ visits[1].executed.calls = <<"get_current_price", "get_balance", "get_balance">>

C16_FusedSignal ==
    (fuse_in.kind = "signal" /\ fuse_out.done) =>
        LET sum == weighted_signal(fuse_in.columns, fuse_in.row)
        IN  /\ fuse_out.signal \in {-1, 0, 1}
            /\ fuse_out.signal = 1 <=> sum > signal_threshold
            /\ fuse_out.signal = -1 <=> sum < 0 - signal_threshold
            /\ (/\ fuse_in.columns = AllSignalColumns
                /\ \A c \in AllSignalColumns : fuse_in.row[c] = 1)
                   => fuse_out.signal = 1

\* every indicator gave +1 and the fused signal is +1
C16_Witness ==
    /\ fuse_in.kind = "signal" /\ fuse_out.done
    /\ fuse_in.columns = AllSignalColumns
    /\ \A c \in AllSignalColumns : fuse_in.row[c] = 1
    /\ weighted_signal(fuse_in.columns, fuse_in.row) = 100
    /\ fuse_out.signal = 1

\* the weighted sum is the threshold 0.3 itself, from the crossover alone,
\* and the fused signal is 0
C16_WitnessAtThreshold ==
    /\ fuse_in.kind = "signal" /\ fuse_out.done
    /\ fuse_in.columns = AllSignalColumns
    /\ fuse_in.row["ma_cross_signal"] = 1
    /\ weighted_signal(fuse_in.columns, fuse_in.row) = signal_threshold
    /\ fuse_out.signal = 0

\* C17: every factor that enters the confidence is within [0, 1], and so is
\* the confidence, their arithmetic mean (0.5 without a factor).
C17_ConfidenceInRange ==
    (fuse_in.kind = "confidence" /\ fuse_out.done) =>
        LET factors == confidence_factors(fuse_in)
            confidence == fuse_out.confidence
        IN  /\ \A i \in DOMAIN factors :
                   0 <= factors[i].n /\ factors[i].n <= factors[i].d
            /\ confidence.d > 0
            /\ 0 <= confidence.n /\ confidence.n <= confidence.d
            /\ Len(factors) = 1 => confidence = factors[1]

\* five factors entered the confidence, one of them from a volume ratio above
\* its range and one from an undefined RSI, and the mean is inside (0, 1)
C17_Witness ==
    /\ fuse_in.kind = "confidence" /\ fuse_out.done
    /\ Len(confidence_factors(fuse_in)) = 5
    /\ fuse_in.volume_ratio = Feature(35)
    /\ fuse_in.rsi14 = NaN
    /\ 0 < fuse_out.confidence.n
    /\ fuse_out.confidence.n < fuse_out.confidence.d

(***************************************************************************)
(* Rebalancing                                                             *)
(***************************************************************************)
Rebalanced == rebal_in.called /\ rebal_out.returned

\* the call is in its time.sleep(1) between the sells and the buys
RebalanceWaits == rebal_in.called /\ rebal_out.waiting

RebalanceCalls == rebal_out.result.calls

CallsOf(name) == {i \in DOMAIN RebalanceCalls : RebalanceCalls[i].action = name}

\* the calls before call i that were executed, i.e. the orders among them
OrdersBefore(i) ==
    SelectSeq(SubSeq(RebalanceCalls, 1, i - 1),
              LAMBDA c : c.action \in {"sell", "buy"})

BuysBefore(i) ==
    SelectSeq(SubSeq(RebalanceCalls, 1, i - 1), LAMBDA c : c.action = "buy")

\* C18: within one rebalance every sell is submitted before the cash is read
\* again and before any buy; after a rejected sell no buy is submitted and the
\* call returns success false with the sells executed before it.  While the
\* call waits after its sells, whether or not a termination signal arrives,
\* it has neither read the cash again nor submitted a buy.
C18_SellsBeforeBuys ==
    /\ RebalanceWaits => CallsOf("get_balance") \cup CallsOf("buy") = {}
    /\ Rebalanced \/ RebalanceWaits =>
        /\ \A i \in CallsOf("sell"), j \in CallsOf("get_balance") \cup CallsOf("buy") :
               i < j
        /\ \A i \in CallsOf("get_balance"), j \in CallsOf("buy") : i < j
        /\ \A i \in CallsOf("sell") :
               ~rebal_in.sell_ok[RebalanceCalls[i].ticker] =>
                   /\ CallsOf("buy") = {}
                   /\ ~rebal_out.result.success
                   /\ rebal_out.result.actions = OrdersBefore(i)

\* a rebalance that has sold and waits while a signal sets the stop flag
C18_WitnessWaiting ==
    /\ RebalanceWaits
    /\ ~running
    /\ CallsOf("sell") # {}

\* a rebalance whose second sell is rejected after the first one was executed
C18_Witness ==
    /\ Rebalanced
    /\ \E i \in CallsOf("sell") :
           /\ i = 2
           /\ ~rebal_in.sell_ok[RebalanceCalls[i].ticker]
           /\ Len(rebal_out.result.actions) = 1
    /\ \E t \in DOMAIN rebal_in.targets :
           /\ rebal_in.targets[t].ticker # "KRW"
           /\ rebal_in.targets[t].ratio > 0
           /\ rebal_in.krw2.value >= 20000

\* a rebalance that sells and then buys
C18_WitnessBoth ==
    /\ Rebalanced
    /\ CallsOf("sell") # {}
    /\ CallsOf("buy") # {}
    /\ rebal_out.result.success

RECURSIVE SumOfValues(_)
SumOfValues(seq) ==
    IF seq = <<>> THEN 0 ELSE seq[1].value + SumOfValues(Tail(seq))

RebalancePortfolio ==
    check_portfolio_risk(rebal_in.krw, rebal_in.balances, rebal_in.price)

\* the value (times 100) a target is short of, from the portfolio read at the
\* start of the call
DeficitOf(target) ==
    LET exposure == RebalancePortfolio.portfolio_exposure
        value == IF target.ticker \in DOMAIN exposure
                 THEN exposure[target.ticker].value ELSE 0
    IN  target.ratio * RebalancePortfolio.total_balance - value * 100

CashReRead == OrZero(rebal_in.krw2) * 100

\* the cash (times 100) left when call i is made
CashLeftAt(i) == CashReRead - SumOfValues(BuysBefore(i))

TargetOfCall(i) ==
    CHOOSE t \in DOMAIN rebal_in.targets :
        rebal_in.targets[t].ticker = RebalanceCalls[i].ticker

\* the buys submitted for the targets listed before target t
BoughtBefore(t) ==
    SelectSeq(RebalanceCalls,
              LAMBDA c : /\ c.action = "buy"
                         /\ \E k \in 1..(t - 1) : rebal_in.targets[k].ticker = c.ticker)

C19_WitnessSkip ==
    /\ Rebalanced
    /\ rebal_out.result.success
    /\ \E t \in DOMAIN rebal_in.targets :
           /\ rebal_in.targets[t].ticker # "KRW"
           /\ DeficitOf(rebal_in.targets[t]) > 0
           /\ DeficitOf(rebal_in.targets[t]) < MinimumOrder * 100
           /\ CashReRead >= 25000 * 100
           /\ \A i \in CallsOf("buy") :
                  RebalanceCalls[i].ticker # rebal_in.targets[t].ticker

\* a target short of exactly 5000 (30 % of 50000 with 10000 held) with 60000
\* of cash: the program computes 4999.999999999999 and buys nothing
C19_WitnessRounding ==
    /\ Rebalanced
    /\ rebal_out.result.success
    /\ CashReRead = 60000 * 100
    /\ CallsOf("buy") = {}
    /\ \E t \in DOMAIN rebal_in.targets :
           /\ rebal_in.targets[t].ratio = 30
           /\ DeficitOf(rebal_in.targets[t]) = MinimumOrder * 100

\* a first buy for 6000 out of 11000 leaves 4999.999999999999 in the
\* program's float, and the second target, short of 6000, gets no buy
C19_WitnessDrift ==
    /\ Rebalanced
    /\ rebal_out.result.success
    /\ CashReRead = 11000 * 100
    /\ Len(rebal_in.targets) = 2
    /\ \E i \in CallsOf("buy") :
           /\ RebalanceCalls[i].ticker = rebal_in.targets[1].ticker
           /\ RebalanceCalls[i].value = 6000 * 100
    /\ Cardinality(CallsOf("buy")) = 1
    /\ DeficitOf(rebal_in.targets[2]) = 6000 * 100

\* a target short of exactly 5000 (half of 30000 with 10000 held) that is
\* bought for 5000
C19_WitnessMinimum ==
    /\ Rebalanced
    /\ \E i \in CallsOf("buy") :
           /\ RebalanceCalls[i].value = MinimumOrder * 100
           /\ DeficitOf(rebal_in.targets[TargetOfCall(i)]) = MinimumOrder * 100
           /\ rebal_in.buy_ok[RebalanceCalls[i].ticker]

(***************************************************************************)
(* The stop flag                                                           *)
(***************************************************************************)
\* C20: a termination signal changes nothing but the stop flag; a cycle ends
\* only by returning from its last block or from its except clause, whether
\* or not the flag is set; main() leaves the loop only at the test of the
\* loop, with the flag set and no cycle in flight; and once the flag is set
\* the loop does exit.
C20_StopBetweenCycles ==
    /\ [][/\ running' # running =>
                 /\ running' = FALSE
                 /\ UNCHANGED <<main_pc, phase, started, completed, passed>>
          /\ (phase # "idle" /\ phase' = "idle") =>
                 /\ phase \in {"notify_risk", "portfolio", "error"}
                 /\ completed' = completed + 1
          /\ (phase # "idle" /\ phase' # phase /\ phase' \notin {"idle", "error"}) =>
                 phase' = Phases[PhaseIndex(phase) + 1]
          /\ (main_pc # "exited" /\ main_pc' = "exited") =>
                 /\ main_pc = "loop_test"
                 /\ ~running
                 /\ phase = "idle"
                 /\ completed = started]_vars
    /\ (~running ~> main_pc = "exited")

\* the signal arrived during the strategy pass of the first cycle; the cycle
\* went on through the risk check and the reporting, and then the loop exited
C20_Witness ==
    /\ signalled.seen
    /\ signalled.phase = "strategy"
    /\ {"strategy", "notify_trades", "risk", "notify_risk", "portfolio"} \subseteq passed
    /\ completed = started
    /\ main_pc = "exited"

\* the signal arrived between the two trade notifications of the first
\* cycle; the second one was sent, the cycle went on through the risk check
\* and the portfolio report, and then the loop exited
C20_WitnessReporting ==
    /\ signalled.seen
    /\ signalled.phase = "notify_trades"
    /\ signalled.notified = 1
    /\ signalled.started = 1
    /\ started = 1
    /\ Notified("trade") = 2
    /\ notices[2].result = "True"
    /\ Notified("portfolio") = 1
    /\ {"notify_trades", "risk", "notify_risk", "portfolio"} \subseteq passed
    /\ completed = started
    /\ main_pc = "exited"

\* the signal was handled during the time.sleep(0.5) of a pass that bought:
\* the flag is down, the order is in the order table and the entry of the
\* market is the buy
C20_WitnessInTheWait ==
    /\ ~running
    /\ phase = "strategy"
    /\ cyc_pc = "waiting"
    /\ Len(orders) = 1
    /\ results[markets[cyc_index]].trade_result.action = "buy"
    /\ results[markets[cyc_index]].trade_result.success

(***************************************************************************)
(* The cycles of main()                                                    *)
(***************************************************************************)
\* C21: at most one cycle is in flight: a cycle, the first one or one the
\* scheduler runs, starts only when every cycle started before has returned.
C21_OneCycleAtATime ==
    /\ [](/\ started - completed \in {0, 1}
          /\ (phase = "idle") <=> (started = completed))
    /\ [][started' # started =>
              /\ started' = started + 1
              /\ phase = "idle"
              /\ completed = started
              /\ phase' = "strategy"]_vars

\* the second cycle, run by the scheduler, is at its risk check after the
\* first one returned
C21_Witness ==
    /\ started = 2
    /\ completed = 1
    /\ main_pc = "run_pending"
    /\ phase = "risk"

(***************************************************************************)
(* The notifier                                                            *)
(***************************************************************************)
\* the message of the notice was built and handed to send_message
Handed(n) == n.outcome # "format_error"

\* C22: a notify call whose message is handed to send_message and is not
\* sent returns False and never raises, whether the send fails with a
\* TelegramError or with another exception or the notifier is off; the
\* cycle goes on after it as after a message that was sent: the loop makes
\* its remaining calls, the trade notifications are followed by the risk
\* check, the risk notifications by the portfolio report or the return of
\* the cycle, and the cycle reaches its except clause only where a block
\* raises outside send_message.
C22_NotifyFailureSwallowed ==
    /\ [](/\ \A i \in DOMAIN notices :
                 Handed(notices[i]) =>
                     /\ notices[i].result \in {"True", "False"}
                     /\ notices[i].result = "True" <=> notices[i].outcome = "sent"
          /\ (phase = "error" \/ "error" \in passed) =>
                 \/ main_in.raises # "none"
                 \/ \E i \in DOMAIN notices : ~Handed(notices[i])
          /\ "notify_trades" \in passed =>
                 Notified("trade") = Len(NotHold(cycle_trades))
          /\ "notify_risk" \in passed =>
                 Notified("risk_action") = Len(NotHold(risk_actions)))
    /\ [][/\ (Len(notices') > Len(notices) /\ Handed(notices'[Len(notices')])) =>
                 /\ phase' # "error"
                 /\ main_pc' = "exited" => main_pc = "exited"
                 /\ phase \in {"notify_trades", "notify_risk"} => phase' = phase
          /\ (phase = "notify_trades" /\ phase' \notin {phase, "error"}) =>
                 phase' = "risk"
          /\ (phase = "notify_risk" /\ phase' \notin {phase, "error"}) =>
                 phase' \in {"portfolio", "idle"}]_vars

\* the first of two trade notifications failed with an exception that is not
\* a TelegramError; the second one was sent and the risk check of that cycle
\* has run
C22_Witness ==
    /\ Len(notices) >= 2
    /\ notices[1].kind = "trade"
    /\ notices[1].outcome = "other_error"
    /\ notices[1].result = "False"
    /\ notices[2].kind = "trade"
    /\ notices[2].result = "True"
    /\ \E i \in DOMAIN cycle_trades : cycle_trades[i].action = "buy"
    /\ "risk" \in passed

\* the format of a trade notification raised: the cycle went to its except
\* clause, whose error notice was sent, and made no risk check
C22_WitnessFormat ==
    /\ Len(notices) = 2
    /\ notices[1].kind = "trade" /\ notices[1].result = "raise"
    /\ notices[2].kind = "error" /\ notices[2].result = "True"
    /\ "risk" \notin passed
    /\ phase = "idle" /\ completed = started

\* C23: when the except clause of the strategy's loop body wrote the entry
\* of a market, the cycle went on past that market and the notifier's error
\* event was called in that cycle.
C23_InstrumentErrorReported ==
    ((\E i \in DOMAIN cycle_trades : cycle_trades[i].raised)
        /\ phase = "idle" /\ completed = started) =>
        /\ "strategy" \in passed
        /\ \E i \in DOMAIN notices : notices[i].kind = "error"

(***************************************************************************)
(* The portfolio                                                           *)
(***************************************************************************)
\* the value of the holding of a coin that has a price, from the inputs
HeldValue(coin) ==
    LET list == IF rebal_in.balances.absent THEN <<>> ELSE rebal_in.balances.list
        hits == {i \in DOMAIN list : /\ ~Malformed(list[i])
                                      /\ list[i].currency = coin
                                      /\ list[i].balance > 0}
    IN  IF hits = {} \/ rebal_in.price[Ticker(coin)] = NoPrice THEN 0
        ELSE list[CHOOSE i \in hits : TRUE].balance * rebal_in.price[Ticker(coin)]

RECURSIVE SumHeld(_)
SumHeld(coins) ==
    IF coins = {} THEN 0
    ELSE LET c == CHOOSE x \in coins : TRUE IN HeldValue(c) + SumHeld(coins \ {c})

\* an entry of the balances response raises in check_portfolio_risk
ResponseRaises ==
    /\ ~rebal_in.balances.absent
    /\ \E i \in DOMAIN rebal_in.balances.list : Malformed(rebal_in.balances.list[i])

\* the levels of a portfolio against the cash and the holdings of the
\* responses
LevelsAsStated(p) ==
    LET total == OrZero(rebal_in.krw) + SumHeld(Coins)
        Over(pct) == \E c \in Coins : total > 0 /\ HeldValue(c) * 100 > pct * total
    IN  /\ p.total_balance = total
        /\ p.risk_level \in {"low", "medium", "high"}
        /\ p.risk_level = "high" <=> Over(50)
        /\ p.risk_level = "medium" <=> (Over(30) /\ ~Over(50))
        /\ p.risk_level = "low" <=> ~Over(30)

C25_Witness ==
    /\ Rebalanced
    /\ rebal_out.portfolio.total_balance = 60000
    /\ HeldValue("BTC") = 30000
    /\ HeldValue("ETH") = 30000
    /\ rebal_out.portfolio.risk_level = "medium"

(***************************************************************************)
(* The rows that reach the fuser                                           *)
(***************************************************************************)
\* C24: no cell that the fuser reads holds the initial 0 of a signal column
\* whose operands are not all there on that row, whatever the number of bars
\* and whichever indicators are enabled.
C24_NoWarmupRowFused ==
    (fuse_in.kind = "indicators" /\ fuse_out.done /\ fuse_in.fails = {}
     /\ fuse_in.config.rsi.use_divergence # "missing") =>
        fuse_out.defaulted = {}

(***************************************************************************)
(* The price extremes of a ledger entry                                    *)
(***************************************************************************)
\* the current price and the entry price lie between the extremes
PriceExtremesBracket ==
    \A t \in DOMAIN positions :
        /\ positions[t].lowest_price <= positions[t].current_price
        /\ positions[t].current_price <= positions[t].highest_price
        /\ positions[t].lowest_price <= positions[t].entry_price
        /\ positions[t].entry_price <= positions[t].highest_price

\* an entry that starts has all four prices equal to the price observed; an
\* entry that goes on keeps its entry price, and its extremes are the larger
\* and the smaller of the extreme before and the price observed
PriceExtremesStep ==
    \A t \in DOMAIN positions' :
        IF t \in DOMAIN positions
        THEN /\ positions'[t].entry_price = positions[t].entry_price
             /\ positions'[t].highest_price =
                    Max(positions[t].highest_price, positions'[t].current_price)
             /\ positions'[t].lowest_price =
                    Min(positions[t].lowest_price, positions'[t].current_price)
        ELSE /\ positions'[t].highest_price = positions'[t].current_price
             /\ positions'[t].lowest_price = positions'[t].current_price
             /\ positions'[t].entry_price = positions'[t].current_price

\* C26: highest_price is the maximum and lowest_price the minimum of the
\* current prices observed since the entry started, over any sequence of
\* update cycles, so that lowest_price <= current_price <= highest_price and
\* lowest_price <= entry_price <= highest_price in every state.
C26_RunningExtremes == []PriceExtremesBracket /\ [][PriceExtremesStep]_vars

\* an entry that has seen a price above and a price below its entry price
\* and is now strictly between its extremes
C26_Witness ==
    \E t \in DOMAIN positions :
        /\ positions[t].lowest_price < positions[t].entry_price
        /\ positions[t].entry_price < positions[t].highest_price
        /\ positions[t].lowest_price < positions[t].current_price
        /\ positions[t].current_price < positions[t].highest_price

(***************************************************************************)
(* The trailing stop and the highest price                                 *)
(***************************************************************************)
\* C30: with the trailing stop enabled, every ledger entry has a trailing
\* stop price, and it is highest_price * (1 - trailing_stop), in every state
\* that calls of update_positions lead to.
C30_StopFollowsHighest ==
    use_trailing_stop =>
        \A t \in DOMAIN positions :
            /\ positions[t].has_trailing_stop
            /\ positions[t].trailing_stop_price =
                   StopPriceOf(positions[t].highest_price)

\* an entry whose price has risen and fallen back below its highest price
\* since it started, with the trailing stop enabled
C30_Witness ==
    /\ use_trailing_stop
    /\ \E t \in DOMAIN positions :
           /\ positions[t].entry_price < positions[t].highest_price
           /\ positions[t].current_price < positions[t].highest_price

(***************************************************************************)
(* The crossover strength                                                  *)
(***************************************************************************)
\* |shortMA - longMA| / close of the last row, mapped from [0.001, 0.05] to
\* [0, 1] and clamped
CrossoverStrength(frame) ==
    Clamp01(frame.ma.nan,
            1000 * Abs(frame.ma.short - frame.ma.long) - frame.ma.close,
            49 * frame.ma.close)

\* the factors with the crossover strength as stated
StatedFactors(frame) ==
    LET factors == confidence_factors(frame)
    IN  [i \in DOMAIN factors |->
            IF i = 2 THEN CrossoverStrength(frame) ELSE factors[i]]

\* C27: when the frame has a crossover signal on its last row, the second
\* confidence factor is |shortMA - longMA| / close mapped from [0.001, 0.05]
\* to [0, 1], for the short and the long moving average of the close, and the
\* confidence is the mean with that factor.
C27_CrossoverStrength ==
    (/\ fuse_in.kind = "confidence" /\ fuse_out.done
     /\ "ma_cross_signal" \in fuse_in.columns /\ fuse_in.cross # 0) =>
        LET stated == SumFrac(StatedFactors(fuse_in))
            factors == Len(confidence_factors(fuse_in))
        IN  /\ confidence_factors(fuse_in)[2] = CrossoverStrength(fuse_in)
            /\ fuse_out.confidence.n * stated.d * factors =
                   stated.n * fuse_out.confidence.d

(***************************************************************************)
(* The weighted sum over the available indicators                          *)
(***************************************************************************)
\* the weights of the columns present, from column i on
RECURSIVE WeightsFrom(_, _)
WeightsFrom(columns, i) ==
    IF i > Len(SignalColumns) THEN 0
    ELSE (IF SignalColumns[i] \in columns THEN Weight(SignalColumns[i]) ELSE 0)
         + WeightsFrom(columns, i + 1)

\* C28: the weighted sum is taken over the signal columns present and is
\* normalized by their weights alone, so that the fused signal is +1 exactly
\* when sum / weights > 0.3 and -1 exactly when sum / weights < -0.3: a
\* column that is not there counts neither in the sum nor in the weights,
\* unlike a column with a signal of 0.
C28_SumOverAvailable ==
    (/\ fuse_in.kind = "signal" /\ fuse_out.done /\ fuse_in.columns # {}
     /\ ~RoundedPast(fuse_in.columns, fuse_in.row, 1)
     /\ ~RoundedPast(fuse_in.columns, fuse_in.row, -1)) =>
        LET sum == weighted_signal(fuse_in.columns, fuse_in.row)
            weights == WeightsFrom(fuse_in.columns, 1)
        IN  /\ fuse_out.signal = 1 <=> 100 * sum > signal_threshold * weights
            /\ fuse_out.signal = -1 <=> 100 * sum < (0 - signal_threshold) * weights

(***************************************************************************)
(* An indicator that raises                                                *)
(***************************************************************************)
\* the configuration without the contribution of one indicator function
Without(config, name) ==
    CASE name = "ma_crossover" -> [config EXCEPT !.ma_crossover.enabled = FALSE]
      [] name = "rsi" -> [config EXCEPT !.rsi.enabled = FALSE]
      [] name = "rsi_divergence" -> [config EXCEPT !.rsi.use_divergence = "False"]
      [] name = "bollinger" -> [config EXCEPT !.bollinger.enabled = FALSE]
      [] name = "volume" -> [config EXCEPT !.volume.enabled = FALSE]

\* the frame of the remaining indicators alone
Remaining(name) ==
    add_indicators(Candles(fuse_in.closes), Without(fuse_in.config, name), {})

\* the indicator functions of the remaining indicators all ran to their end
IndicatorRaised(name) ==
    /\ fuse_in.kind = "indicators" /\ fuse_out.done
    /\ fuse_in.config.rsi.use_divergence # "missing"
    /\ fuse_out.raised = {name}

\* C29: when one indicator function raises, the frame handed to the fuser
\* has the rows and the signals of the remaining enabled indicators, as if
\* the one that raised were not enabled: the others are computed, their
\* warm-up rows are dropped and their signals are fused.
C29_OnlyRaiserSkipped ==
    \A name \in IndicatorNames :
        IndicatorRaised(name) =>
            /\ fuse_out.rows = Rows(Remaining(name))
            /\ fuse_out.fused = FusedCells(Remaining(name))

\* the RSI raised, and the signals of the three other indicators are fused
\* on the rows that are left
C29_Witness ==
    /\ IndicatorRaised("rsi")
    /\ fuse_out.rows # {}
    /\ {cell[1] : cell \in fuse_out.fused} =
           {"ma_cross_signal", "bb_signal", "volume_signal"}

\* the divergence raised on a series shorter than the RSI's window
C29_WitnessShort ==
    /\ IndicatorRaised("rsi_divergence")
    /\ fuse_in.fails = {}

(***************************************************************************)
(* The refresh of the ledger                                               *)
(***************************************************************************)
\* the step is the call of update_positions at the start of a risk check
RefreshStep == pc = "idle" /\ pc' = "iterating"

\* the state right after that call
JustRefreshed == pc = "iterating" /\ it_index = 1 /\ steps = <<>>

\* C31: when the balance query of update_positions returns nothing or an
\* empty list, the ledger after the call is the ledger before it: the same
\* instruments in the same order, every field of every entry unchanged.
C31_FailedQueryKeepsLedger ==
    [][(RefreshStep /\ ~queried'.succeeded) =>
           (positions' = positions /\ pos_order' = pos_order)]_vars

\* a ledger with an entry right after a refresh whose balance query failed
C31_Witness ==
    /\ JustRefreshed
    /\ ~queried.succeeded
    /\ DOMAIN positions # {}

\* C32: after a call of update_positions whose balance query succeeded, the
\* ledger has an entry for exactly the coins with a balance > 0 whose price
\* query returned a price, in trading.markets or not.
C32_LedgerIsHeldAndPriced ==
    [][(RefreshStep /\ queried'.succeeded) =>
           DOMAIN positions' = queried'.priced]_vars

\* right after a successful refresh the ledger has an entry for a coin that
\* is not in trading.markets and none for a coin that is held, is in
\* trading.markets and has no price
C32_Witness ==
    /\ JustRefreshed
    /\ queried.succeeded
    /\ \E t \in DOMAIN positions : t \notin {markets[i] : i \in DOMAIN markets}
    /\ \E t \in held \ DOMAIN positions : t \in {markets[i] : i \in DOMAIN markets}

(***************************************************************************)
(* Quantity and entry price of a ledger entry                              *)
(***************************************************************************)
\* C33: every entry of the ledger has quantity > 0 and entry_price > 0 in
\* every state, after any sequence of refreshes, partial exits and full
\* exits, and so has every position that is evaluated: the division by
\* entry_price at line 199 is defined.
C33_PositiveQuantityAndEntry ==
    /\ \A t \in DOMAIN positions :
           positions[t].quantity > 0 /\ positions[t].entry_price > 0
    /\ \A e \in Evaluated :
           e.position.quantity > 0 /\ e.position.entry_price > 0

\* an entry that an accepted partial exit of this check left in the ledger
\* with less than it had
C33_Witness ==
    \E e \in Evaluated :
        /\ e.risk_action.action = "partial_sell" /\ e.order_ok
        /\ e.ticker \in DOMAIN positions
        /\ positions[e.ticker].quantity < e.position.quantity

(***************************************************************************)
(* The bounds of a market buy                                              *)
(***************************************************************************)
\* execute_trade has submitted a market buy, accepted or not
BuySubmitted == trade.called /\ trade.result.order.type = "buy"

\* C34 as stated, in exact arithmetic: the notional N of every market buy
\* that execute_trade submits satisfies 5000 <= N <= trade_amount and
\* N <= 0.9 * cash, and the value of the instrument at the price read for the
\* decision, plus N, is at most max_invest_ratio * total assets.
C34_BuyWithinExactBounds ==
    BuySubmitted =>
        LET N == trade.result.order.amount
            value == trade.coin.value * trade.price.value
            total == trade.krw.value + value
        IN  /\ FloatAtLeast(N, MinimumOrder, 1, 0)
            /\ FloatAtMost(N, trading.trade_amount, 1, 0)
            /\ FloatAtMost(N, trade.krw.value * 9, 10, 0)
            /\ FloatAtMost(N, trading.max_invest_ratio * total - value * 100,
                           100, 0)

\* C34: the notional N of every market buy that execute_trade submits
\* satisfies 5000 <= N <= trade_amount exactly; N <= 0.9 * cash and
\* value + N <= max_invest_ratio * total assets hold up to the rounding of
\* the binary64 expressions krw_balance * 0.9 and (max_invest_ratio -
\* coin_ratio) * total_asset: N passes neither bound by more than
\* total assets * 2^-52.
C34_BuyWithinBounds ==
    BuySubmitted =>
        LET N == trade.result.order.amount
            value == trade.coin.value * trade.price.value
            total == trade.krw.value + value
        IN  /\ FloatAtLeast(N, MinimumOrder, 1, 0)
            /\ FloatAtMost(N, trading.trade_amount, 1, 0)
            /\ FloatAtMost(N, trade.krw.value * 9, 10, total)
            /\ FloatAtMost(N, trading.max_invest_ratio * total - value * 100,
                           100, total)

\* a buy whose notional is the room left under max_invest_ratio, below
\* trade_amount and below 0.9 * cash
C34_Witness ==
    /\ BuySubmitted
    /\ ~FloatAtLeast(trade.result.order.amount, trading.trade_amount, 1, 0)
    /\ ~FloatAtLeast(trade.result.order.amount, trade.krw.value * 9, 10, 0)
    /\ trade.coin.value > 0

\* a buy whose notional is 0.9 * cash
C34_WitnessCash ==
    /\ BuySubmitted
    /\ FloatIs(trade.result.order.amount, trade.krw.value * 9, 10)
    /\ ~FloatAtLeast(trade.result.order.amount, trading.trade_amount, 1, 0)

\* 80000 KRW of cash and 270 coins at 100 with max_invest_ratio 0.3: the
\* room is 5100 and the notional 5100.000000000002
C34_WitnessRounding ==
    /\ BuySubmitted
    /\ trade.krw.value = 80000 /\ trade.coin.value = 270
    /\ trade.price.value = 100 /\ trading.max_invest_ratio = 30
    /\ ~FloatAtMost(trade.result.order.amount, 5100, 1, 0)
    /\ FloatAtMost(trade.result.order.amount, 5100, 1, 107000)

\* 5557 KRW of cash and nothing held with max_invest_ratio 1.0: 0.9 * cash
\* is 5001.3 and the notional the float next above it
C34_WitnessCashRounding ==
    /\ BuySubmitted
    /\ trade.krw.value = 5557 /\ trade.coin.value = 0
    /\ ~FloatAtMost(trade.result.order.amount, 50013, 10, 0)
    /\ FloatAtMost(trade.result.order.amount, 50013, 10, 5557)

(***************************************************************************)
(* Indicators whose weights do not reach the threshold                     *)
(***************************************************************************)
\* the fuser was applied to a row whose columns weigh at most 0.3 together
LightColumns ==
    /\ fuse_in.kind = "signal" /\ fuse_out.done
    /\ WeightsFrom(fuse_in.columns, 1) <= signal_threshold

\* C35: if the weights of the signal columns present add up to at most 0.3,
\* the fused signal is 0 whatever the signals are, and execute_trade, given
\* that signal, calls no collaborator and submits no order, whatever the
\* confidence, the price and the balances.
C35_LightIndicatorsNeverTrade ==
    LightColumns =>
        /\ fuse_out.signal = 0
        /\ \A confidence \in Confidences, price \in TradePrices,
              krw \in CashBalances, coin \in HeldBalances, cfg \in TradingConfigs :
               LET r == execute_trade(Ticker("BTC"), fuse_out.signal, confidence,
                                      price, krw, coin, TRUE, cfg)
               IN  r.calls = <<>> /\ r.order = NoOrder /\ r.action = "hold"

\* only the crossover is present and it signals a buy
C35_Witness ==
    /\ LightColumns
    /\ fuse_in.columns = {"ma_cross_signal"}
    /\ fuse_in.row["ma_cross_signal"] = 1

\* the divergence and the volume are present, 0.15 + 0.15, and both signal
\* a sale
C35_WitnessTwo ==
    /\ LightColumns
    /\ fuse_in.columns = {"rsi_divergence", "volume_signal"}
    /\ fuse_in.row["rsi_divergence"] = -1
    /\ fuse_in.row["volume_signal"] = -1

(***************************************************************************)
(* Repeated take-profit exits                                              *)
(***************************************************************************)
\* the take-profit rule is the one that applies to the position
TakeProfitApplies(position) ==
    /\ (position.current_price - position.entry_price) * 100
           >= take_profit * position.entry_price
    /\ ~StopLossHit(position)
    /\ ~TrailingStopHit(position, use_trailing_stop)

\* when a risk check has returned, every entry to which the take-profit rule
\* applies has had a sell of half of its quantity submitted in that check,
\* whether or not it was halved before
TakeProfitEveryCycle ==
    (pc = "idle" /\ steps # <<>>) =>
        \A t \in DOMAIN positions :
            TakeProfitApplies(positions[t]) =>
                \E e \in Evaluated :
                    /\ e.ticker = t
                    /\ e.risk_action = RiskAction("partial_sell", "take_profit")
                    /\ e.ordered
                    /\ e.volume * sell_ratio_den = e.position.quantity

\* a take-profit exit leaves the entry in the ledger
TakeProfitKeepsEntry ==
    (pc = "iterating" /\ Len(steps') = Len(steps) + 1) =>
        LET e == steps'[Len(steps')]
        IN  e.risk_action.reason = "take_profit" => e.ticker \in DOMAIN positions'

\* C36: taking profit has no latch: in every cycle in which the profit of a
\* position is at least take_profit and neither stop applies, a sell of half
\* of the quantity then held is submitted again, and take-profit exits never
\* remove the entry from the ledger.
C36_TakeProfitRepeats == []TakeProfitEveryCycle /\ [][TakeProfitKeepsEntry]_vars

(***************************************************************************)
(* The creation cycle of a position                                        *)
(***************************************************************************)
\* C37: with stop_loss > 0, 0 < trailing_stop < 1 and take_profit > 0, the
\* risk check that follows the refresh which created an entry decides 'hold'
\* for that entry and submits no order for it.
C37_CreatedIsHeld ==
    \A e \in Evaluated :
        e.ticker \in created =>
            /\ e.risk_action = RiskAction("hold", "within_limits")
            /\ ~e.ordered
            /\ e.ticker \in DOMAIN positions

\* a check has evaluated an entry created by its refresh, and has submitted
\* an order for an older entry
C37_Witness ==
    /\ pc = "idle"
    /\ \E e \in Evaluated : e.ticker \in created /\ e.risk_action.action = "hold"
    /\ \E e \in Evaluated : e.ticker \notin created /\ e.ordered

(***************************************************************************)
(* Who writes the ledger                                                   *)
(***************************************************************************)
\* the step changes the ledger: its keys, their order or a field of an entry
LedgerStep == positions' # positions \/ pos_order' # pos_order

\* the step is an order of the risk check that the exchange accepted
AcceptedRiskOrder ==
    /\ pc = "iterating"
    /\ Len(steps') = Len(steps) + 1
    /\ steps'[Len(steps')].ordered
    /\ steps'[Len(steps')].order_ok

\* the step is a pass, the start or the return of the strategy's cycle
StrategyStep == cycle_vars' # cycle_vars \/ orders' # orders

\* the step is a call of rebalance_portfolio with its portfolio query
PortfolioStep == rebal_out' # rebal_out

LedgerWriters ==
    /\ LedgerStep => (IsRefresh \/ AcceptedRiskOrder)
    /\ (StrategyStep \/ PortfolioStep) => ~LedgerStep

\* C38: the ledger changes only in a refresh by update_positions and in a
\* risk action whose order was accepted; a pass of the strategy's cycle with
\* its execute_trade, and rebalance_portfolio with check_portfolio_risk,
\* leave it as it was whatever orders they submit.
C38_LedgerWriters == [][LedgerWriters]_vars

\* the ledger still holds the BTC entry after the strategy has sold the coin
\* and rebalance_portfolio has executed orders
C38_Witness ==
    /\ pc = "idle"
    /\ Ticker("BTC") \in DOMAIN positions
    /\ cyc_pc = "returned"
    /\ \E v \in Visited :
           /\ v.ticker = Ticker("BTC")
           /\ v.entry.trade_result.action = "sell"
           /\ v.entry.trade_result.success
           /\ v.ledger_after = positions
    /\ rebal_out.returned
    /\ Len(rebal_out.result.actions) > 0

\* the same after a pass that raised once execute_trade had sold: the order
\* is in the order table, the entry of the pass is a failed 'hold', and the
\* ledger holds the BTC entry
C38_WitnessRaised ==
    /\ pc = "idle"
    /\ Ticker("BTC") \in DOMAIN positions
    /\ cyc_pc = "returned"
    /\ \E v \in Visited :
           /\ v.ticker = Ticker("BTC")
           /\ v.raised
           /\ v.executed.action = "sell" /\ v.executed.stored
           /\ v.orders_after = v.orders_before + 1
           /\ FailedHold(v.entry)
           /\ v.ledger_after = positions
    /\ rebal_out.returned
    /\ Len(rebal_out.result.actions) > 0

(***************************************************************************)
(* The cycles after the stop flag                                          *)
(***************************************************************************)
\* the cycles started since the first termination signal
StartedSinceSignal == started - signalled.started

\* the signal arrived between the two risk notifications of the second
\* cycle, the last one that started
C39_WitnessReporting ==
    /\ signalled.seen
    /\ signalled.phase = "notify_risk"
    /\ signalled.started = 2
    /\ signalled.notified = Notified("trade") + 1
    /\ Notified("risk_action") = 2
    /\ started = 2
    /\ completed = started
    /\ main_pc = "exited"

\* C39: after the stop flag has been set at most one more trading cycle
\* starts, and main() leaves its loop, every call of a cycle in flight
\* returning.
C39_StopsWithinOneCycle ==
    /\ [](signalled.seen => StartedSinceSignal <= 1)
    /\ (signalled.seen ~> (main_pc = "exited" /\ StartedSinceSignal <= 1))

\* the signal arrived after the test of the loop had passed: the scheduler
\* started the one cycle that was due, it completed, and the loop was left
C39_Witness ==
    /\ signalled.seen
    /\ signalled.main_pc = "run_pending"
    /\ signalled.phase = "idle"
    /\ StartedSinceSignal = 1
    /\ completed = started
    /\ main_pc = "exited"

\* the signal arrived before the first cycle: that cycle ran, no other did
C39_WitnessFirst ==
    /\ signalled.seen
    /\ signalled.main_pc = "first_cycle"
    /\ signalled.started = 0
    /\ started = 1
    /\ main_pc = "exited"

====
